---- MODULE Spec2Model ----
(***************************************************************************)
(* The claim pipeline of the L1-to-L3 faucet proxy: address codec, message *)
(* hasher, signature verifier, balance store and claim coordinator.        *)
(*                                                                         *)
(* Cryptography is modelled symbolically: a hash is its preimage, a public *)
(* key is the private key it was derived from, and an ECDSA value (r, s)   *)
(* remembers the key and the digest it was produced from.  Public-key      *)
(* recovery with anything but that digest and the right recovery index     *)
(* yields a key nobody holds (GarbageKey).                                 *)
(***************************************************************************)
EXTENDS Integers, Sequences, FiniteSets, TLC

NULL == "NULL"

(***************************************************************************)
(* config/constants.js                                                     *)
(***************************************************************************)
hrp == "alpha"
witnessVersion == 0
MESSAGE_PREFIX == "Alpha Signed Message:\n"

\* Order of the signing group, scaled down from the secp256k1 order.
curveOrder == 11
halfOrder == curveOrder \div 2

(***************************************************************************)
(* Keys.  Private keys are 1, 2, 3; 0 stands for a key nobody holds.       *)
(***************************************************************************)
Keys == {1, 2, 3}
GarbageKey == 0

\* keyPair.getPublic(): the compressed public key of a private key.
getPublic(priv) == [pub |-> priv, len |-> 33]

\* HASH160 = RIPEMD160(SHA256(pubkey)), a 20-byte value; symbolic.
hash160(pubKey) == [h |-> pubKey.pub, len |-> 20]

(***************************************************************************)
(* bech32: the 5-bit words of the model's hashes, as text.                 *)
(***************************************************************************)
toWords(h) ==
    CASE h = 0 -> "ce6mua7l"
      [] h = 1 -> "qpzry9x8"
      [] h = 2 -> "gf2tvdw0"
      [] OTHER -> "s3jn54kh"

versionChar(v) == IF v = 0 THEN "q" ELSE "p"

bech32Encode(prefix, version, h) ==
    prefix \o "1" \o versionChar(version) \o toWords(h)

\* Every text that carries a valid bech32 checksum, with what it decodes to.
\* The last entry is a witness program that is not 20 bytes long.
Bech32Table ==
    { [text |-> bech32Encode(p, v, h), prefix |-> p, version |-> v,
       program |-> [h |-> h, len |-> 20]] :
          p \in {"alpha", "alphb"}, v \in {0, 1}, h \in 0..3 }
    \cup { [text |-> "alpha1qqpzry9x8gf2tvdw0", prefix |-> "alpha", version |-> 0,
            program |-> [h |-> 1, len |-> 32]] }

\* bech32.decode: throws (ok = FALSE) unless the checksum is valid.
bech32Decode(text) ==
    IF \E e \in Bech32Table : e.text = text
    THEN LET e == CHOOSE e \in Bech32Table : e.text = text
         IN  [ok |-> TRUE, prefix |-> e.prefix, version |-> e.version,
              program |-> e.program]
    ELSE [ok |-> FALSE, prefix |-> NULL, version |-> 0,
          program |-> [h |-> 0, len |-> 0]]

lowerChar(c) ==
    CASE c = "A" -> "a" [] c = "B" -> "b" [] c = "C" -> "c" [] c = "D" -> "d"
      [] c = "E" -> "e" [] c = "F" -> "f" [] c = "G" -> "g" [] c = "H" -> "h"
      [] c = "I" -> "i" [] c = "J" -> "j" [] c = "K" -> "k" [] c = "L" -> "l"
      [] c = "M" -> "m" [] c = "N" -> "n" [] c = "O" -> "o" [] c = "P" -> "p"
      [] c = "Q" -> "q" [] c = "R" -> "r" [] c = "S" -> "s" [] c = "T" -> "t"
      [] c = "U" -> "u" [] c = "V" -> "v" [] c = "W" -> "w" [] c = "X" -> "x"
      [] c = "Y" -> "y" [] c = "Z" -> "z" [] OTHER -> c

RECURSIVE lowerCaseOf(_)
lowerCaseOf(s) ==
    IF Len(s) = 0 THEN s
    ELSE lowerChar(SubSeq(s, 1, 1)) \o lowerCaseOf(SubSeq(s, 2, Len(s)))

\* String.prototype.toUpperCase
upperChar(c) ==
    CASE c = "a" -> "A" [] c = "b" -> "B" [] c = "c" -> "C" [] c = "d" -> "D"
      [] c = "e" -> "E" [] c = "f" -> "F" [] c = "g" -> "G" [] c = "h" -> "H"
      [] c = "i" -> "I" [] c = "j" -> "J" [] c = "k" -> "K" [] c = "l" -> "L"
      [] c = "m" -> "M" [] c = "n" -> "N" [] c = "o" -> "O" [] c = "p" -> "P"
      [] c = "q" -> "Q" [] c = "r" -> "R" [] c = "s" -> "S" [] c = "t" -> "T"
      [] c = "u" -> "U" [] c = "v" -> "V" [] c = "w" -> "W" [] c = "x" -> "X"
      [] c = "y" -> "Y" [] c = "z" -> "Z" [] OTHER -> c

RECURSIVE toUpperCase(_)
toUpperCase(s) ==
    IF Len(s) = 0 THEN s
    ELSE upperChar(SubSeq(s, 1, 1)) \o toUpperCase(SubSeq(s, 2, Len(s)))

\* The texts given to the address service: every text with a valid checksum
\* in lower and in upper case, texts of mixed case, and texts that are no
\* address (a failing checksum, a character outside the bech32 alphabet,
\* another prefix, too short a text, the empty text).
AddressTexts ==
    { e.text : e \in Bech32Table }
       \cup { toUpperCase(e.text) : e \in Bech32Table }
       \cup { "ALPHA1QQPZRY9X8", "alpha1qbad", "Alpha1Qqpzry9X8", "aLPHA1qGF2TVDW0",
              "ALPHA1QBAD", "alpha1Qbad", "alpha1qqpzry9xb", "ALPHA1QQPZRY9X!",
              "bc1qother", "BC1QOTHER", "alpha1q", "ALPHA1", "" }

\* String.prototype.toLowerCase, tabulated for the address texts of the model.
lowerCaseTable == [s \in AddressTexts |-> lowerCaseOf(s)]
toLowerCase(s) == IF s \in AddressTexts THEN lowerCaseTable[s] ELSE lowerCaseOf(s)

startsWith(s, p) == Len(s) >= Len(p) /\ SubSeq(s, 1, Len(p)) = p

\* /^[a-z]+1[qpzry9x8gf2tvdw0s3jn54khce6mua7l]+$/.test(s)
isLowerLetter(c) == lowerChar(c) = c /\ upperChar(c) # c
bech32Alphabet ==
    { "q", "p", "z", "r", "y", "9", "x", "8", "g", "f", "2", "t", "v", "d", "w", "0",
      "s", "3", "j", "n", "5", "4", "k", "h", "c", "e", "6", "m", "u", "a", "7", "l" }
validCharsOf(s) ==
    \E i \in 2..(Len(s) - 1) :
        /\ SubSeq(s, i, i) = "1"
        /\ \A j \in 1..(i - 1) : isLowerLetter(SubSeq(s, j, j))
        /\ \A j \in (i + 1)..Len(s) : SubSeq(s, j, j) \in bech32Alphabet
validCharsTable == [s \in AddressTexts |-> validCharsOf(s)]
validChars(s) == IF s \in AddressTexts THEN validCharsTable[s] ELSE validCharsOf(s)

(***************************************************************************)
(* AddressService                                                          *)
(***************************************************************************)
\* Faulty variant: the address is not put in lower case.
validateAddressCaseSensitive(address) ==
    LET normalized == address
        decoded == bech32Decode(normalized)
    IN  IF ~startsWith(normalized, hrp \o "1")
        THEN [valid |-> FALSE, error |-> "prefix", normalized |-> NULL]
        ELSE IF Len(normalized) < 14 \/ Len(normalized) > 74
        THEN [valid |-> FALSE, error |-> "length", normalized |-> NULL]
        ELSE IF ~validChars(normalized)
        THEN [valid |-> FALSE, error |-> "chars", normalized |-> NULL]
        ELSE IF ~decoded.ok
        THEN [valid |-> FALSE, error |-> "decode", normalized |-> NULL]
        ELSE IF decoded.prefix # hrp
        THEN [valid |-> FALSE, error |-> "hrp", normalized |-> NULL]
        ELSE IF decoded.version # witnessVersion
        THEN [valid |-> FALSE, error |-> "version", normalized |-> NULL]
        ELSE IF decoded.program.len # 20
        THEN [valid |-> FALSE, error |-> "program", normalized |-> NULL]
        ELSE [valid |-> TRUE, error |-> NULL, normalized |-> normalized]

\* Lines 465-514.
validateAddress(address) ==
    LET normalized == toLowerCase(address)
        decoded == bech32Decode(normalized)
    IN  IF ~startsWith(normalized, hrp \o "1")
        THEN [valid |-> FALSE, error |-> "prefix", normalized |-> NULL]
        ELSE IF Len(normalized) < 14 \/ Len(normalized) > 74
        THEN [valid |-> FALSE, error |-> "length", normalized |-> NULL]
        ELSE IF ~validChars(normalized)
        THEN [valid |-> FALSE, error |-> "chars", normalized |-> NULL]
        ELSE IF ~decoded.ok
        THEN [valid |-> FALSE, error |-> "decode", normalized |-> NULL]
        ELSE IF decoded.prefix # hrp
        THEN [valid |-> FALSE, error |-> "hrp", normalized |-> NULL]
        ELSE IF decoded.version # witnessVersion
        THEN [valid |-> FALSE, error |-> "version", normalized |-> NULL]
        ELSE IF decoded.program.len # 20
        THEN [valid |-> FALSE, error |-> "program", normalized |-> NULL]
        ELSE [valid |-> TRUE, error |-> NULL, normalized |-> normalized]

\* Faulty variant: the witness version 1 is prepended.
encodeAddressV1(pubKeyHash) == bech32Encode(hrp, 1, pubKeyHash.h)

encodeAddress(pubKeyHash) == bech32Encode(hrp, witnessVersion, pubKeyHash.h)

publicKeyToAddress(publicKey) == encodeAddress(hash160(publicKey))

(***************************************************************************)
(* utils/errors.js                                                         *)
(***************************************************************************)
AppError(name, message, statusCode) ==
    [name |-> name, message |-> message, statusCode |-> statusCode]
\* Faulty variant: NotFoundError carries the status of a validation error.
NotFoundErrorAs400(message) == AppError("NotFoundError", message, 400)
NotFoundError(message) == AppError("NotFoundError", message, 404)
ValidationError(message) == AppError("ValidationError", message, 400)
SignatureError(message) == AppError("SignatureError", message, 400)
AlreadyMintedError(message) == AppError("AlreadyMintedError", message, 409)
FaucetError(message) == AppError("FaucetError", message, 502)
DatabaseError(message) == AppError("DatabaseError", message, 500)
NoError == AppError("none", "", 200)

\* AddressService.decodeAddress, lines 521-532: ok = FALSE when it throws.
decodeAddress(address) ==
    LET validation == validateAddress(address)
        decoded == bech32Decode(validation.normalized)
    IN  IF ~validation.valid
        THEN [ok |-> FALSE, error |-> ValidationError(validation.error),
              witnessVersion |-> -1, pubKeyHash |-> [h |-> 0, len |-> 0]]
        ELSE [ok |-> TRUE, error |-> NoError,
              witnessVersion |-> decoded.version, pubKeyHash |-> decoded.program]

(***************************************************************************)
(* SignatureService                                                        *)
(***************************************************************************)
\* Faulty variant: the amount is left out of the signed message.
createMessageWithoutAmount(l1Address, unicityId, amount) ==
    l1Address \o ":" \o unicityId

createMessage(l1Address, unicityId, amount) ==
    l1Address \o ":" \o unicityId \o ":" \o ToString(amount)

encodeVarInt(n) ==
    IF n < 253 THEN <<n>>
    ELSE IF n < 65536 THEN <<253, n % 256, n \div 256>>
    ELSE <<254, n % 256, (n \div 256) % 256, (n \div 65536) % 256, n \div 16777216>>

\* Double SHA-256 of the prefixed message; the digest is its preimage.
createMessageHash(message) ==
    [sha256d |-> <<encodeVarInt(Len(MESSAGE_PREFIX)), MESSAGE_PREFIX,
                   encodeVarInt(Len(message)), message>>]

\* tests/fixtures/addressGenerator.js, createMessageHash: each length is
\* written with Buffer.from([length]), one byte holding length & 255.
fixtureCreateMessageHash(message) ==
    [sha256d |-> << <<Len(MESSAGE_PREFIX) % 256>>, MESSAGE_PREFIX,
                    <<Len(message) % 256>>, message >>]

\* elliptic's keyPair.sign(hash, {canonical: true}): deterministic (r, s) with
\* low S, and the recovery index that leads back to the signer.
ecSign(priv, msgHash) ==
    LET n == Len(msgHash.sha256d[4])
    IN  [r |-> 1 + ((3 * priv + n) % (curveOrder - 1)),
         s |-> 1 + ((priv + n) % halfOrder),
         signer |-> priv, digest |-> msgHash, rec |-> (priv + n) % 2]

\* ec.recoverPubKey(hash, {r, s}, j): ok = FALSE when it throws (the second
\* candidate x = r + n does not exist).
ecRecoverPubKey(msgHash, rs, j) ==
    IF j >= 2
    THEN [ok |-> FALSE, point |-> getPublic(GarbageKey)]
    ELSE IF rs.signer # GarbageKey /\ rs.digest = msgHash /\ rs.rec = j
    THEN [ok |-> TRUE, point |-> getPublic(rs.signer)]
    ELSE [ok |-> TRUE, point |-> getPublic(GarbageKey)]

\* keyPair.verify(hash, {r, s}): true of exactly the keys recovery can yield.
ecVerify(point, msgHash, rs) ==
    \E j \in {0, 1} : ecRecoverPubKey(msgHash, rs, j).point = point

\* Two hex characters <-> one byte.
toHexByte(n) == <<n \div 16, n % 16>>
parseHexByte(h) == 16 * h[1] + h[2]

\* A signature text: whether it starts with 0x, whether what follows is hex
\* only, how many characters follow, and the three slices of it.
SigText(prefix0x, hexOk, len, v, rs) ==
    [prefix0x |-> prefix0x, hexOk |-> hexOk, len |-> len, v |-> v, rs |-> rs]

\* Faulty variant: the headers 27..30 of uncompressed keys are accepted.
parseSignatureUncompressedOk(signatureHex) ==
    LET v == parseHexByte(signatureHex.v)
        rs == signatureHex.rs
        fail(m) == [ok |-> FALSE, error |-> ValidationError(m),
                    v |-> v, rs |-> rs, recoveryParam |-> -1]
    IN  IF ~signatureHex.hexOk THEN fail("Signature must be valid hex")
        ELSE IF signatureHex.len # 130
        THEN fail("Signature must be 65 bytes (130 hex characters)")
        ELSE IF ~((v >= 39 /\ v <= 42) \/ (v >= 27 /\ v <= 34))
        THEN fail("Invalid recovery parameter")
        ELSE IF rs.r = 0 \/ rs.r >= curveOrder
        THEN fail("Signature r value out of range")
        ELSE IF rs.s = 0 \/ rs.s >= curveOrder
        THEN fail("Signature s value out of range")
        ELSE IF rs.s > halfOrder
        THEN fail("Signature s value not normalized (BIP-62)")
        ELSE [ok |-> TRUE, error |-> NoError, v |-> v, rs |-> rs,
              recoveryParam |-> IF v >= 39 /\ v <= 42 THEN v - 39
                                ELSE IF v >= 31 THEN v - 31 ELSE v - 27]

\* Faulty variant: the low-S rule is not enforced.
parseSignatureAnyS(signatureHex) ==
    LET v == parseHexByte(signatureHex.v)
        rs == signatureHex.rs
        fail(m) == [ok |-> FALSE, error |-> ValidationError(m),
                    v |-> v, rs |-> rs, recoveryParam |-> -1]
    IN  IF ~signatureHex.hexOk THEN fail("Signature must be valid hex")
        ELSE IF signatureHex.len # 130
        THEN fail("Signature must be 65 bytes (130 hex characters)")
        ELSE IF ~((v >= 39 /\ v <= 42) \/ (v >= 31 /\ v <= 34))
        THEN IF v >= 27 /\ v <= 30
             THEN fail("Uncompressed signatures not supported")
             ELSE fail("Invalid recovery parameter")
        ELSE IF rs.r = 0 \/ rs.r >= curveOrder
        THEN fail("Signature r value out of range")
        ELSE IF rs.s = 0 \/ rs.s >= curveOrder
        THEN fail("Signature s value out of range")
        ELSE [ok |-> TRUE, error |-> NoError, v |-> v, rs |-> rs,
              recoveryParam |-> IF v >= 39 /\ v <= 42 THEN v - 39 ELSE v - 31]

\* Lines 86-144.
parseSignature(signatureHex) ==
    LET v == parseHexByte(signatureHex.v)
        rs == signatureHex.rs
        fail(m) == [ok |-> FALSE, error |-> ValidationError(m),
                    v |-> v, rs |-> rs, recoveryParam |-> -1]
    IN  IF ~signatureHex.hexOk THEN fail("Signature must be valid hex")
        ELSE IF signatureHex.len # 130
        THEN fail("Signature must be 65 bytes (130 hex characters)")
        ELSE IF ~((v >= 39 /\ v <= 42) \/ (v >= 31 /\ v <= 34))
        THEN IF v >= 27 /\ v <= 30
             THEN fail("Uncompressed signatures not supported")
             ELSE fail("Invalid recovery parameter")
        ELSE IF rs.r = 0 \/ rs.r >= curveOrder
        THEN fail("Signature r value out of range")
        ELSE IF rs.s = 0 \/ rs.s >= curveOrder
        THEN fail("Signature s value out of range")
        ELSE IF rs.s > halfOrder
        THEN fail("Signature s value not normalized (BIP-62)")
        ELSE [ok |-> TRUE, error |-> NoError, v |-> v, rs |-> rs,
              recoveryParam |-> IF v >= 39 /\ v <= 42 THEN v - 39 ELSE v - 31]

VerifyFailure(err) ==
    [valid |-> FALSE, error |-> err, recoveredPublicKey |-> getPublic(GarbageKey),
     derivedAddress |-> NULL]

\* Faulty variant: the derived address is not compared with the claimed one.
verifySignatureAnyAddress(l1Address, unicityId, amount, signatureHex) ==
    LET addrValidation == validateAddress(l1Address)
        parsed == parseSignature(signatureHex)
        message == createMessage(l1Address, unicityId, amount)
        messageHash == createMessageHash(message)
        recovered == ecRecoverPubKey(messageHash, parsed.rs, parsed.recoveryParam)
        derivedAddress == publicKeyToAddress(recovered.point)
    IN  IF ~addrValidation.valid
        THEN VerifyFailure(ValidationError("Invalid L1 address"))
        ELSE IF ~parsed.ok THEN VerifyFailure(parsed.error)
        ELSE IF ~recovered.ok
        THEN VerifyFailure(SignatureError("Public key recovery failed"))
        ELSE IF ~ecVerify(recovered.point, messageHash, parsed.rs)
        THEN VerifyFailure(SignatureError("Mathematical signature verification failed"))
        ELSE [valid |-> TRUE, error |-> NoError,
              recoveredPublicKey |-> recovered.point,
              derivedAddress |-> derivedAddress]

verifySignature(l1Address, unicityId, amount, signatureHex) ==
    LET addrValidation == validateAddress(l1Address)
        parsed == parseSignature(signatureHex)
        message == createMessage(l1Address, unicityId, amount)
        messageHash == createMessageHash(message)
        recovered == ecRecoverPubKey(messageHash, parsed.rs, parsed.recoveryParam)
        derivedAddress == publicKeyToAddress(recovered.point)
    IN  IF ~addrValidation.valid
        THEN VerifyFailure(ValidationError("Invalid L1 address"))
        ELSE IF ~parsed.ok THEN VerifyFailure(parsed.error)
        ELSE IF ~recovered.ok
        THEN VerifyFailure(SignatureError("Public key recovery failed"))
        ELSE IF toLowerCase(derivedAddress) # addrValidation.normalized
        THEN VerifyFailure(SignatureError("Address mismatch"))
        ELSE IF ~ecVerify(recovered.point, messageHash, parsed.rs)
        THEN VerifyFailure(SignatureError("Mathematical signature verification failed"))
        ELSE [valid |-> TRUE, error |-> NoError,
              recoveredPublicKey |-> recovered.point,
              derivedAddress |-> derivedAddress]

\* The loop over i = 0..3 of createSignature: the first index whose recovered
\* key is the signer's, -1 when there is none.
findRecoveryParam(messageHash, signature, publicKey) ==
    LET hits == { i \in 0..3 :
                    LET rec == ecRecoverPubKey(messageHash, signature, i)
                    IN  rec.ok /\ rec.point = publicKey }
    IN  IF hits = {} THEN -1 ELSE CHOOSE i \in hits : \A k \in hits : i <= k

\* Faulty variant: the header of an uncompressed key, 27 + recoveryParam.
createSignatureUncompressed(privateKeyHex, l1Address, unicityId, amount) ==
    LET message == createMessage(l1Address, unicityId, amount)
        messageHash == createMessageHash(message)
        signature == ecSign(privateKeyHex, messageHash)
        recoveryParam == findRecoveryParam(messageHash, signature,
                                           getPublic(privateKeyHex))
    IN  SigText(FALSE, TRUE, 130, toHexByte(27 + recoveryParam), signature)

createSignature(privateKeyHex, l1Address, unicityId, amount) ==
    LET message == createMessage(l1Address, unicityId, amount)
        messageHash == createMessageHash(message)
        signature == ecSign(privateKeyHex, messageHash)
        recoveryParam == findRecoveryParam(messageHash, signature,
                                           getPublic(privateKeyHex))
    IN  SigText(FALSE, TRUE, 130, toHexByte(31 + recoveryParam), signature)

(***************************************************************************)
(* Bounds of the model                                                     *)
(***************************************************************************)
MaxClaims == 2
MaxClock == 1

Claims == 1..MaxClaims

VARIABLES
    balances,       \* table balances: l1_address -> row
    mint_requests,  \* table mint_requests: sequence of rows, id = index
    claims,         \* the POST /api/v1/faucet/request handlers in flight
    clock,          \* datetime('now')
    storeCall,      \* the last direct call of a store operation (SpecStore)
    sigTest,        \* the signature round trip under test (SpecSig)
    snap,           \* the run of the snapshot builder (SpecSnapshot)
    disk,           \* the file at the output path of the snapshot builder
    addrTest,       \* the address under test (SpecAddress)
    server,         \* the server process: its phase and whether its store is open
    hashTest        \* the message hashed by the verifier and by the fixture (SpecHash)

vars ==
    <<balances, mint_requests, claims, clock, storeCall, sigTest, snap, disk, addrTest,
      server, hashTest>>

now == "t" \o ToString(clock)

(***************************************************************************)
(* The snapshot the server starts from (cli/snapshot.js createDatabase):   *)
(* the addresses of keys 1 and 2 hold 2 and 3 satoshis, key 3 holds none.  *)
(***************************************************************************)
addressOf(k) == publicKeyToAddress(getPublic(k))

insertBalance(l1Address, amount) ==
    [l1_address |-> l1Address, initial_amount |-> amount, spent |-> 0,
     unicity_id |-> NULL, mint_tx_id |-> NULL, minted_at |-> NULL]

Snapshot ==
    [a \in {addressOf(1), addressOf(2)} |->
        insertBalance(a, IF a = addressOf(1) THEN 2 ELSE 3)]

(***************************************************************************)
(* BalanceRepository                                                       *)
(***************************************************************************)
\* Faulty variant: the SELECT compares the key as it is spelled.
findByAddressBinary(bal, l1Address) ==
    IF l1Address \in DOMAIN bal
    THEN [found |-> TRUE, record |-> bal[l1Address]]
    ELSE [found |-> FALSE, record |-> insertBalance(NULL, 0)]

\* SELECT * FROM balances WHERE l1_address = ? COLLATE NOCASE
findByAddress(bal, l1Address) ==
    LET hits == { k \in DOMAIN bal : toLowerCase(k) = toLowerCase(l1Address) }
    IN  IF hits = {}
        THEN [found |-> FALSE, record |-> insertBalance(NULL, 0)]
        ELSE [found |-> TRUE, record |-> bal[CHOOSE k \in hits : TRUE]]

\* Number(satoshis) / Number(SATOSHIS_PER_COIN): the decimal number of coins.
toCoins(satoshis) == [coin |-> satoshis \div 100000000, sat |-> satoshis % 100000000]

NoBalanceInfo ==
    [success |-> FALSE, l1_addr |-> NULL, unicityId |-> NULL,
     amount |-> toCoins(0), amountInSmallUnits |-> 0,
     initialAmount |-> toCoins(0), initialAmountInSmallUnits |-> 0,
     spent |-> FALSE, inSnapshot |-> FALSE, mintedAt |-> NULL]

\* Faulty variant: the current amount is the initial amount, spent or not.
getBalanceIgnoresSpent(bal, l1Address) ==
    LET found == findByAddress(bal, l1Address)
        record == found.record
    IN  IF ~found.found
        THEN [NoBalanceInfo EXCEPT !.success = TRUE, !.l1_addr = l1Address]
        ELSE [success |-> TRUE, l1_addr |-> record.l1_address,
              unicityId |-> record.unicity_id,
              amount |-> toCoins(record.initial_amount),
              amountInSmallUnits |-> record.initial_amount,
              initialAmount |-> toCoins(record.initial_amount),
              initialAmountInSmallUnits |-> record.initial_amount,
              spent |-> record.spent = 1, inSnapshot |-> TRUE,
              mintedAt |-> record.minted_at]

\* BalanceService.getBalance, SignatureService.js lines 282-318.
getBalance(bal, l1Address) ==
    LET found == findByAddress(bal, l1Address)
        record == found.record
        initialAmount == record.initial_amount
        spent == record.spent = 1
        currentAmount == IF spent THEN 0 ELSE initialAmount
    IN  IF ~found.found
        THEN [NoBalanceInfo EXCEPT !.success = TRUE, !.l1_addr = l1Address]
        ELSE [success |-> TRUE, l1_addr |-> record.l1_address,
              unicityId |-> record.unicity_id,
              amount |-> toCoins(currentAmount),
              amountInSmallUnits |-> currentAmount,
              initialAmount |-> toCoins(initialAmount),
              initialAmountInSmallUnits |-> initialAmount,
              spent |-> spent, inSnapshot |-> TRUE,
              mintedAt |-> record.minted_at]

\* Faulty variant: the statement flips spent and has no "AND spent = 0".
markAsSpentStmtToggle(bal, unicityId, mintTxId, l1Address, at) ==
    LET hits == { k \in DOMAIN bal : toLowerCase(k) = toLowerCase(l1Address) }
    IN  [balances |-> [k \in DOMAIN bal |->
                         IF k \in hits
                         THEN [bal[k] EXCEPT !.spent = 1 - @,
                                             !.unicity_id = unicityId,
                                             !.mint_tx_id = mintTxId,
                                             !.minted_at = at]
                         ELSE bal[k]],
         changes |-> Cardinality(hits)]

\* Faulty variant: the statement writes the columns but not spent = 1.
markAsSpentStmtNoFlag(bal, unicityId, mintTxId, l1Address, at) ==
    LET hits == { k \in DOMAIN bal :
                    /\ toLowerCase(k) = toLowerCase(l1Address)
                    /\ bal[k].spent = 0 }
    IN  [balances |-> [k \in DOMAIN bal |->
                         IF k \in hits
                         THEN [bal[k] EXCEPT !.unicity_id = unicityId,
                                             !.mint_tx_id = mintTxId,
                                             !.minted_at = at]
                         ELSE bal[k]],
         changes |-> Cardinality(hits)]

\* Faulty variant: the statement also sets initial_amount to 0.
markAsSpentStmtZeroAmount(bal, unicityId, mintTxId, l1Address, at) ==
    LET hits == { k \in DOMAIN bal :
                    /\ toLowerCase(k) = toLowerCase(l1Address)
                    /\ bal[k].spent = 0 }
    IN  [balances |-> [k \in DOMAIN bal |->
                         IF k \in hits
                         THEN [bal[k] EXCEPT !.spent = 1,
                                             !.initial_amount = 0,
                                             !.unicity_id = unicityId,
                                             !.mint_tx_id = mintTxId,
                                             !.minted_at = at]
                         ELSE bal[k]],
         changes |-> Cardinality(hits)]

\* Faulty variant: the statement has no "AND spent = 0".
markAsSpentStmtUnconditional(bal, unicityId, mintTxId, l1Address, at) ==
    LET hits == { k \in DOMAIN bal : toLowerCase(k) = toLowerCase(l1Address) }
    IN  [balances |-> [k \in DOMAIN bal |->
                         IF k \in hits
                         THEN [bal[k] EXCEPT !.spent = 1,
                                             !.unicity_id = unicityId,
                                             !.mint_tx_id = mintTxId,
                                             !.minted_at = at]
                         ELSE bal[k]],
         changes |-> Cardinality(hits)]

\* Faulty variant: the statement does not write minted_at.
markAsSpentStmtNoTime(bal, unicityId, mintTxId, l1Address, at) ==
    LET hits == { k \in DOMAIN bal :
                    /\ toLowerCase(k) = toLowerCase(l1Address)
                    /\ bal[k].spent = 0 }
    IN  [balances |-> [k \in DOMAIN bal |->
                         IF k \in hits
                         THEN [bal[k] EXCEPT !.spent = 1,
                                             !.unicity_id = unicityId,
                                             !.mint_tx_id = mintTxId]
                         ELSE bal[k]],
         changes |-> Cardinality(hits)]

\* UPDATE balances SET spent = 1, unicity_id = ?, mint_tx_id = ?,
\*   minted_at = datetime('now') WHERE l1_address = ? COLLATE NOCASE AND spent = 0
markAsSpentStmt(bal, unicityId, mintTxId, l1Address, at) ==
    LET hits == { k \in DOMAIN bal :
                    /\ toLowerCase(k) = toLowerCase(l1Address)
                    /\ bal[k].spent = 0 }
    IN  [balances |-> [k \in DOMAIN bal |->
                         IF k \in hits
                         THEN [bal[k] EXCEPT !.spent = 1,
                                             !.unicity_id = unicityId,
                                             !.mint_tx_id = mintTxId,
                                             !.minted_at = at]
                         ELSE bal[k]],
         changes |-> Cardinality(hits)]

markAsSpent(bal, l1Address, unicityId, mintTxId, at) ==
    LET result == markAsSpentStmt(bal, unicityId, mintTxId, l1Address, at)
    IN  [balances |-> result.balances, ok |-> result.changes = 1]

\* Faulty variant: the transaction does not look at record.spent and relies
\* on the conditional UPDATE alone.
atomicMarkAsSpentUnchecked(bal, l1Address, unicityId, mintTxId, at) ==
    LET found == findByAddress(bal, l1Address)
        result == markAsSpentStmt(bal, unicityId, mintTxId, l1Address, at)
    IN  IF ~found.found
        THEN [balances |-> bal, success |-> FALSE, error |-> "not_found"]
        ELSE IF result.changes # 1
        THEN [balances |-> result.balances, success |-> FALSE,
              error |-> "race_condition"]
        ELSE [balances |-> result.balances, success |-> TRUE, error |-> NULL]

\* Faulty variant: the test of result.changes is inverted.
atomicMarkAsSpentInverted(bal, l1Address, unicityId, mintTxId, at) ==
    LET found == findByAddress(bal, l1Address)
        result == markAsSpentStmt(bal, unicityId, mintTxId, l1Address, at)
    IN  IF ~found.found
        THEN [balances |-> bal, success |-> FALSE, error |-> "not_found"]
        ELSE IF found.record.spent = 1
        THEN [balances |-> bal, success |-> FALSE, error |-> "already_minted"]
        ELSE IF result.changes = 1
        THEN [balances |-> result.balances, success |-> FALSE,
              error |-> "race_condition"]
        ELSE [balances |-> result.balances, success |-> TRUE, error |-> NULL]

atomicMarkAsSpent(bal, l1Address, unicityId, mintTxId, at) ==
    LET found == findByAddress(bal, l1Address)
        result == markAsSpentStmt(bal, unicityId, mintTxId, l1Address, at)
    IN  IF ~found.found
        THEN [balances |-> bal, success |-> FALSE, error |-> "not_found"]
        ELSE IF found.record.spent = 1
        THEN [balances |-> bal, success |-> FALSE, error |-> "already_minted"]
        ELSE IF result.changes # 1
        THEN [balances |-> result.balances, success |-> FALSE,
              error |-> "race_condition"]
        ELSE [balances |-> result.balances, success |-> TRUE, error |-> NULL]

\* INSERT INTO mint_requests (...) VALUES (?, ?, ?, ?, 'pending', ...)
logMintRequest(log, l1Address, unicityId, amount) ==
    Append(log, [l1_address |-> l1Address, unicity_id |-> unicityId,
                 amount |-> amount, status |-> "pending",
                 error_message |-> NULL, faucet_response |-> NULL,
                 updates |-> 0])

\* Faulty variant: the statement has no "WHERE id = ?".
updateMintRequestAll(log, requestId, status, errorMessage, faucetResponse) ==
    [i \in DOMAIN log |->
        [log[i] EXCEPT !.status = status, !.error_message = errorMessage,
                       !.faucet_response = faucetResponse,
                       !.updates = @ + 1]]

\* Faulty variant: the statement does not write error_message.
updateMintRequestNoMessage(log, requestId, status, errorMessage, faucetResponse) ==
    [i \in DOMAIN log |->
        IF i = requestId
        THEN [log[i] EXCEPT !.status = status,
                            !.faucet_response = faucetResponse,
                            !.updates = @ + 1]
        ELSE log[i]]

\* UPDATE mint_requests SET status = ?, error_message = ?, faucet_response = ?,
\*   processed_at = datetime('now') WHERE id = ?
updateMintRequest(log, requestId, status, errorMessage, faucetResponse) ==
    [i \in DOMAIN log |->
        IF i = requestId
        THEN [log[i] EXCEPT !.status = status, !.error_message = errorMessage,
                            !.faucet_response = faucetResponse,
                            !.updates = @ + 1]
        ELSE log[i]]

(***************************************************************************)
(* FaucetProxyService.mintToken: what the upstream answers and what the    *)
(* call returns.  A response is a status code with the two places a        *)
(* transaction id may stand in; netError is a failed or timed-out request. *)
(***************************************************************************)
UpstreamResponses ==
    { [netError |-> FALSE, statusCode |-> 200, requestId |-> "r1", txId |-> NULL],
      [netError |-> FALSE, statusCode |-> 200, requestId |-> NULL, txId |-> "x1"],
      [netError |-> FALSE, statusCode |-> 200, requestId |-> NULL, txId |-> NULL],
      [netError |-> FALSE, statusCode |-> 502, requestId |-> NULL, txId |-> NULL],
      [netError |-> TRUE, statusCode |-> 0, requestId |-> NULL, txId |-> NULL] }

mintToken(response) ==
    IF response.netError
    THEN [success |-> FALSE, txId |-> NULL,
          error |-> FaucetError("Failed to contact upstream faucet")]
    ELSE IF response.statusCode # 200
    THEN [success |-> FALSE, txId |-> NULL,
          error |-> FaucetError("Upstream faucet error")]
    ELSE [success |-> TRUE,
          txId |-> IF response.requestId # NULL THEN response.requestId
                   ELSE IF response.txId # NULL THEN response.txId
                   ELSE "unknown",
          error |-> NoError]

(***************************************************************************)
(* What clients send                                                       *)
(***************************************************************************)
RawAddresses ==
    { addressOf(1), addressOf(2), addressOf(3), "ALPHA1QQPZRY9X8", "alpha1qbad" }
UnicityIds == { "", "d1", "d:2" }
Amounts == { 0, 2, 3 }

\* A signature with S replaced by n - S: still a signature of the same key
\* over the same digest, with the other recovery index.
highS(sig) ==
    [sig EXCEPT !.rs.s = curveOrder - @, !.rs.rec = 1 - @,
                !.v = toHexByte(parseHexByte(@) + 1 - 2 * sig.rs.rec)]
\* The same signature under the 39..42 header.
segwitHeader(sig) == [sig EXCEPT !.v = toHexByte(parseHexByte(@) + 8)]

\* What signers produce: every key signs claims of the snapshot's addresses.
HonestSignatures ==
    { createSignature(k, a, u, m) :
        k \in Keys, a \in {addressOf(1), addressOf(2)},
        u \in UnicityIds \ {""}, m \in Amounts \ {0} }

\* What clients present: those, re-encodings of the ones key 1 made, a text
\* that is not hex and a text that is too short.
Signatures ==
    HonestSignatures
    \cup { highS(sig) : sig \in { h \in HonestSignatures : h.rs.signer = 1 } }
    \cup { segwitHeader(sig) : sig \in { h \in HonestSignatures : h.rs.signer = 1 } }
    \cup { SigText(FALSE, FALSE, 130, toHexByte(31), ecSign(1, createMessageHash(""))),
           SigText(TRUE, TRUE, 8, toHexByte(31), ecSign(1, createMessageHash(""))) }

\* The signature was made with the key that owns l1Address, over the message
\* of exactly this address, destination and amount.
SignedByOwner(sig, l1Address, unicityId, amount) ==
    /\ sig.rs.signer \in Keys
    /\ addressOf(sig.rs.signer) = l1Address
    /\ sig.rs.digest = createMessageHash(createMessage(l1Address, unicityId, amount))

(***************************************************************************)
(* BalanceService.processMintRequest                                       *)
(***************************************************************************)
\* Faulty variant: the amount is not validated.
validateRequestAnyAmount(unicityId, amount) ==
    IF Len(unicityId) < 1 THEN ValidationError("Invalid unicityId")
    ELSE NoError

\* Lines 329-338: the checks made before the request is logged.
validateRequest(unicityId, amount) ==
    IF Len(unicityId) < 1 THEN ValidationError("Invalid unicityId")
    ELSE IF amount <= 0 THEN ValidationError("Amount must be positive")
    ELSE NoError

\* Faulty variant: the amount is compared before the spent flag is looked at.
checkRequestAmountFirst(bal, l1Address, unicityId, amount, signature) ==
    LET found == findByAddress(bal, l1Address)
        verified == verifySignature(l1Address, unicityId, amount, signature)
    IN  IF ~found.found THEN NotFoundError("Address not found in snapshot")
        ELSE IF amount # found.record.initial_amount
        THEN ValidationError("Amount mismatch: must mint full balance")
        ELSE IF found.record.spent = 1
        THEN AlreadyMintedError("Address has already been minted")
        ELSE verified.error

\* Faulty variant: the amount is not compared with initial_amount.
checkRequestAnyAmount(bal, l1Address, unicityId, amount, signature) ==
    LET found == findByAddress(bal, l1Address)
        verified == verifySignature(l1Address, unicityId, amount, signature)
    IN  IF ~found.found THEN NotFoundError("Address not found in snapshot")
        ELSE IF found.record.spent = 1
        THEN AlreadyMintedError("Address has already been minted")
        ELSE verified.error

\* Faulty variant: the signature is verified before the row is looked up.
checkRequestSignatureFirst(bal, l1Address, unicityId, amount, signature) ==
    LET found == findByAddress(bal, l1Address)
        verified == verifySignature(l1Address, unicityId, amount, signature)
    IN  IF verified.error # NoError THEN verified.error
        ELSE IF ~found.found THEN NotFoundError("Address not found in snapshot")
        ELSE IF found.record.spent = 1
        THEN AlreadyMintedError("Address has already been minted")
        ELSE IF amount # found.record.initial_amount
        THEN ValidationError("Amount mismatch: must mint full balance")
        ELSE NoError

\* Lines 349-372: lookup, already-minted, amount equality, signature.
checkRequest(bal, l1Address, unicityId, amount, signature) ==
    LET found == findByAddress(bal, l1Address)
        verified == verifySignature(l1Address, unicityId, amount, signature)
    IN  IF ~found.found THEN NotFoundError("Address not found in snapshot")
        ELSE IF found.record.spent = 1
        THEN AlreadyMintedError("Address has already been minted")
        ELSE IF amount # found.record.initial_amount
        THEN ValidationError("Amount mismatch: must mint full balance")
        ELSE verified.error

\* Faulty variant: the result of atomicMarkAsSpent is not looked at.
reserveErrorIgnored(atomicResult) == NoError

\* Lines 382-387: what a failed atomicMarkAsSpent is thrown as.
reserveError(atomicResult) ==
    IF atomicResult.success THEN NoError
    ELSE IF atomicResult.error = "already_minted"
    THEN AlreadyMintedError("Address was minted by another request")
    ELSE ValidationError("Failed to process: " \o atomicResult.error)

\* The body schema of POST /api/v1/faucet/request: l1_addr and unicityId are
\* non-empty strings, amount is an integer >= 1, signature matches
\* ^(0x)?[0-9a-fA-F]{130}$.
requestBodySchema(l1_addr, unicityId, amount, signature) ==
    /\ Len(l1_addr) >= 1
    /\ Len(unicityId) >= 1
    /\ amount >= 1
    /\ signature.hexOk /\ signature.len = 130

\* What Fastify throws when the body does not match the schema.
SchemaError == AppError("FST_ERR_VALIDATION", "Validation error", 400)

isAppError(error) ==
    error.name \in {"AppError", "NotFoundError", "ValidationError", "SignatureError",
                    "AlreadyMintedError", "FaucetError", "DatabaseError"}

\* The status a thrown error is answered with: the catch of the route for an
\* AppError, the error handler of the server for everything else.
errorHandler(error) ==
    IF error.name = SchemaError.name THEN 400
    ELSE IF isAppError(error) THEN error.statusCode
    ELSE 500

\* The store calls of processMintRequest that may throw a DatabaseError;
\* "catch" is the updateMintRequest of the catch block.
MaxFaults == 1
RequestFaults == {"logMintRequest", "findByAddress", "catch"}
ReserveFaults == {"atomicMarkAsSpent", "catch"}
RelayFaults == {"markAsSpent", "updateMintRequest", "catch"}

\* index.js: the process after start() has resolved; its store is open.
Listening == [phase |-> "listening", storeOpen |-> TRUE]

IdleClaim ==
    [pc |-> "idle", l1Address |-> NULL, unicityId |-> NULL, amount |-> 0,
     schemaOk |-> FALSE, addressOk |-> FALSE, invoked |-> FALSE,
     requestId |-> 0, sawRow |-> "none", signedByOwner |-> FALSE,
     atomic |-> "none", mintCalls |-> 0, upstream |-> "none", fault |-> "none",
     statusCode |-> 0, error |-> NoError, txId |-> NULL, txn |-> "none"]

Replied(claim, err) ==
    [claim EXCEPT !.pc = "done", !.statusCode = errorHandler(err), !.error = err]

\* How the row of l1Address looked to the claim when it looked it up.
rowState(bal, l1Address) ==
    LET found == findByAddress(bal, l1Address)
    IN  IF ~found.found THEN "absent"
        ELSE IF found.record.spent = 1 THEN "spent" ELSE "fresh"

\* Lines 413-422: the catch block updates the log row and rethrows; when that
\* update throws, its DatabaseError is what propagates.
catchBlock(log, requestId, err, fault) ==
    IF fault = "catch"
    THEN [log |-> log, error |-> DatabaseError("Failed to update mint request")]
    ELSE [log |-> updateMintRequest(log, requestId, "failed", err.message, NULL),
          error |-> err]

\* routes.js, POST /api/v1/faucet/request, up to the store's reservation:
\* the body is checked against the schema, the address is validated and
\* normalized, processMintRequest validates the destination and the amount,
\* logs the request and runs its checks.  fault names the store call that
\* throws, "none" when the store works.  direct is a call of
\* processMintRequest that does not come through the route: nothing is
\* checked before it and the address is taken as it is given.
RequestStep(c, l1_addr, unicityId, amount, signature, fault, direct) ==
    LET validation == validateAddress(l1_addr)
        schemaOk == requestBodySchema(l1_addr, unicityId, amount, signature)
        l1Address == IF direct THEN l1_addr ELSE validation.normalized
        invalid == validateRequest(unicityId, amount)
        requestId == Len(mint_requests) + 1
        logged == logMintRequest(mint_requests, l1Address, unicityId, amount)
        failure == checkRequest(balances, l1Address, unicityId, amount, signature)
        started == [claims[c] EXCEPT !.unicityId = unicityId, !.amount = amount]
    IN  /\ claims[c].pc = "idle"
        /\ \A d \in Claims : d < c => claims[d].pc # "idle"
        /\ IF ~direct /\ ~schemaOk
           THEN /\ fault = "none"
                /\ claims' = [claims EXCEPT ![c] =
                      Replied([started EXCEPT !.l1Address = l1_addr], SchemaError)]
                /\ UNCHANGED mint_requests
           ELSE IF ~direct /\ ~validation.valid
           THEN /\ fault = "none"
                /\ claims' = [claims EXCEPT ![c] =
                      Replied([started EXCEPT !.l1Address = l1_addr,
                                              !.schemaOk = TRUE],
                              ValidationError("Invalid L1 address"))]
                /\ UNCHANGED mint_requests
           ELSE LET called == [started EXCEPT !.l1Address = l1Address,
                                              !.schemaOk = schemaOk,
                                              !.addressOk = validation.valid,
                                              !.invoked = TRUE]
                IN  IF invalid # NoError
                    THEN /\ fault = "none"
                         /\ claims' = [claims EXCEPT ![c] = Replied(called, invalid)]
                         /\ UNCHANGED mint_requests
                    ELSE IF fault = "logMintRequest"
                    THEN /\ claims' = [claims EXCEPT ![c] =
                               Replied([called EXCEPT !.fault = fault],
                                       DatabaseError("Failed to log mint request"))]
                         /\ UNCHANGED mint_requests
                    ELSE IF fault = "findByAddress"
                    THEN LET caught == catchBlock(logged, requestId,
                                 DatabaseError("Failed to find address"), fault)
                         IN  /\ claims' = [claims EXCEPT ![c] =
                                   Replied([called EXCEPT !.requestId = requestId,
                                                          !.fault = fault],
                                           caught.error)]
                             /\ mint_requests' = caught.log
                    ELSE LET checked ==
                               [called EXCEPT
                                  !.requestId = requestId,
                                  !.sawRow = rowState(balances, l1Address),
                                  !.signedByOwner =
                                      SignedByOwner(signature, l1Address,
                                                    unicityId, amount)]
                             caught == catchBlock(logged, requestId, failure, fault)
                         IN  IF failure # NoError
                             THEN /\ claims' = [claims EXCEPT ![c] =
                                        Replied([checked EXCEPT !.fault = fault],
                                                caught.error)]
                                  /\ mint_requests' = caught.log
                             ELSE /\ fault = "none"
                                  /\ claims' = [claims EXCEPT ![c] =
                                                  [checked EXCEPT !.pc = "reserve"]]
                                  /\ mint_requests' = logged
        /\ UNCHANGED <<balances, clock, storeCall, sigTest, snap, disk, addrTest, server, hashTest>>

Request(c, l1_addr, unicityId, amount, signature) ==
    RequestStep(c, l1_addr, unicityId, amount, signature, "none", FALSE)

\* processMintRequest called by another caller than the route.
Invoke(c, l1Address, unicityId, amount, signature) ==
    RequestStep(c, l1Address, unicityId, amount, signature, "none", TRUE)

\* Faulty variant: the transaction is still open when txn.immediate() returns.
immediateHeldOpen(threw) == IF threw THEN "rolledback" ELSE "open"

\* txn.immediate(), lines 158-162: BEGIN IMMEDIATE, the function, then COMMIT
\* when it returns and ROLLBACK when it throws, all before the call returns.
immediate(threw) == IF threw THEN "rolledback" ELSE "committed"

\* Lines 374-391: the reservation, and on success the call of the upstream.
\* A transaction that throws is rolled back.  BEGIN IMMEDIATE throws while
\* another write transaction is open.
ReserveStep(c, fault) ==
    LET claim == claims[c]
        busy == \E d \in Claims : claims[d].txn = "open"
        threw == fault = "atomicMarkAsSpent" \/ busy
        atomicResult == atomicMarkAsSpent(balances, claim.l1Address,
                                          claim.unicityId, "pending", now)
        failure == IF threw
                   THEN DatabaseError("Atomic update failed")
                   ELSE reserveError(atomicResult)
        called == [claim EXCEPT
                     !.atomic = IF threw THEN "threw"
                                ELSE IF atomicResult.success THEN "success"
                                ELSE atomicResult.error,
                     !.txn = immediate(threw),
                     !.fault = fault]
        caught == catchBlock(mint_requests, claim.requestId, failure, fault)
    IN  /\ claim.pc = "reserve"
        /\ balances' = IF threw THEN balances
                       ELSE atomicResult.balances
        /\ IF failure # NoError
           THEN /\ claims' = [claims EXCEPT ![c] = Replied(called, caught.error)]
                /\ mint_requests' = caught.log
           ELSE /\ fault = "none"
                /\ claims' = [claims EXCEPT ![c] =
                                [called EXCEPT !.pc = "relay", !.mintCalls = @ + 1]]
                /\ UNCHANGED mint_requests
        /\ UNCHANGED <<clock, storeCall, sigTest, snap, disk, addrTest, server, hashTest>>

Reserve(c) == ReserveStep(c, "none")

\* Lines 391-422: the upstream answers; the row and the log are updated.
RelayStep(c, response, fault) ==
    LET claim == [claims[c] EXCEPT
                    !.upstream = IF response.netError \/ response.statusCode # 200
                                 THEN "failed" ELSE "ok",
                    !.fault = fault]
        mintResult == mintToken(response)
        marked == markAsSpent(balances, claim.l1Address, claim.unicityId,
                              mintResult.txId, now)
        thrown == IF ~mintResult.success THEN mintResult.error
                  ELSE IF fault = "markAsSpent"
                  THEN DatabaseError("Failed to mark as spent")
                  ELSE IF fault = "updateMintRequest"
                  THEN DatabaseError("Failed to update mint request")
                  ELSE NoError
        caught == catchBlock(mint_requests, claim.requestId, thrown, fault)
    IN  /\ claim.pc = "relay"
        /\ mintResult.success => fault # "catch"
        /\ ~mintResult.success => fault \in {"none", "catch"}
        /\ balances' = IF mintResult.success /\ fault # "markAsSpent"
                       THEN marked.balances ELSE balances
        /\ IF thrown = NoError
           THEN /\ mint_requests' =
                     updateMintRequest(mint_requests, claim.requestId, "success",
                                       NULL, mintResult.txId)
                /\ claims' = [claims EXCEPT ![c] =
                                [claim EXCEPT !.pc = "done", !.statusCode = 200,
                                              !.txId = mintResult.txId]]
           ELSE /\ mint_requests' = caught.log
                /\ claims' = [claims EXCEPT ![c] = Replied(claim, caught.error)]
        /\ UNCHANGED <<clock, storeCall, sigTest, snap, disk, addrTest, server, hashTest>>

Relay(c, response) == RelayStep(c, response, "none")

\* The same three steps with a store call that throws; at most MaxFaults
\* claims meet a failing store.
FaultAllowed ==
    Cardinality({ d \in Claims : claims[d].fault # "none" }) < MaxFaults

RequestFault(c, l1_addr, unicityId, amount, signature, fault) ==
    FaultAllowed
    /\ RequestStep(c, l1_addr, unicityId, amount, signature, fault, FALSE)

ReserveFault(c, fault) == FaultAllowed /\ ReserveStep(c, fault)

RelayFault(c, response, fault) == FaultAllowed /\ RelayStep(c, response, fault)

\* The reservation when the conditional UPDATE reports no changed row
\* (BalanceRepository.atomicMarkAsSpent, lines 148-152): the outcome is
\* race_condition and the table is as it was.
atomicMarkAsSpentRaced(bal, l1Address) ==
    LET found == findByAddress(bal, l1Address)
    IN  IF ~found.found
        THEN [balances |-> bal, success |-> FALSE, error |-> "not_found"]
        ELSE IF found.record.spent = 1
        THEN [balances |-> bal, success |-> FALSE, error |-> "already_minted"]
        ELSE [balances |-> bal, success |-> FALSE, error |-> "race_condition"]

ReserveRaced(c) ==
    LET claim == claims[c]
        atomicResult == atomicMarkAsSpentRaced(balances, claim.l1Address)
        failure == reserveError(atomicResult)
        caught == catchBlock(mint_requests, claim.requestId, failure, "none")
    IN  /\ claim.pc = "reserve"
        /\ atomicResult.error = "race_condition"
        /\ claims' = [claims EXCEPT ![c] =
                        Replied([claim EXCEPT !.atomic = atomicResult.error,
                                              !.txn = immediate(FALSE)],
                                caught.error)]
        /\ mint_requests' = caught.log
        /\ UNCHANGED <<balances, clock, storeCall, sigTest, snap, disk, addrTest, server, hashTest>>

\* The signatures worth presenting with a request: one of each kind, where two
\* signatures are of a kind when the verifier answers them alike and both or
\* neither are the owner's signature of the request.
kindOf(sig, l1_addr, unicityId, amount) ==
    LET l1Address == toLowerCase(l1_addr)
    IN  <<verifySignature(l1Address, unicityId, amount, sig).error,
          SignedByOwner(sig, l1Address, unicityId, amount)>>

SignaturesFor ==
    [a \in RawAddresses, u \in UnicityIds, m \in Amounts |->
        LET kinds == { kindOf(sig, a, u, m) : sig \in Signatures }
        IN  { CHOOSE sig \in Signatures : kindOf(sig, a, u, m) = k : k \in kinds }]

(***************************************************************************)
(* cli/snapshot.js: the chain the node serves                              *)
(*                                                                         *)
(* A transaction has inputs (txid NULL for a coinbase) and outputs; the    *)
(* output k of the code is vout[k + 1] here.  An amount is a number of     *)
(* coins with eight decimals: coin whole coins and sat hundred-millionths. *)
(***************************************************************************)
MaxHeight == 2

Coins(coin, sat) == [coin |-> coin, sat |-> sat]

TxPool ==
    << [txid |-> "t1", vin |-> {[txid |-> NULL, vout |-> 0]},
        vout |-> << [address |-> addressOf(1), value |-> Coins(0, 2)],
                    [address |-> addressOf(2), value |-> Coins(0, 1)] >>],
       [txid |-> "t2", vin |-> {[txid |-> "t1", vout |-> 0]},
        vout |-> << [address |-> addressOf(2), value |-> Coins(0, 1)],
                    [address |-> "bc1qother", value |-> Coins(0, 1)] >>],
       [txid |-> "t3", vin |-> {[txid |-> NULL, vout |-> 0]},
        vout |-> << [address |-> addressOf(1), value |-> Coins(1, 3)],
                    [address |-> NULL, value |-> Coins(0, 0)],
                    [address |-> addressOf(3), value |-> Coins(0, 0)] >>] >>

\* The block of height h when transaction i is mined at height at[i].
blockAt(at, h) ==
    LET idx == { i \in DOMAIN TxPool : at[i] = h }
    IN  IF idx = {} THEN <<>>
        ELSE SubSeq(TxPool, CHOOSE i \in idx : \A j \in idx : i <= j,
                            CHOOSE i \in idx : \A j \in idx : i >= j)

\* The chains: every way of putting the transactions, in their order, into
\* the blocks of heights 0..MaxHeight.  chain[h + 1] is the block of height h.
Chains ==
    { [h \in 1..(MaxHeight + 1) |-> blockAt(at, h - 1)] :
        at \in { f \in [DOMAIN TxPool -> 0..MaxHeight] :
                   \A i, j \in DOMAIN TxPool : i <= j => f[i] <= f[j] } }

\* getblockchaininfo().blocks
tipOf(chain) == Len(chain) - 1

\* Every output of the chain, with the height of its block.
OutputsOf(chain) ==
    UNION { UNION { { [txid |-> chain[h][t].txid, n |-> k - 1,
                       address |-> chain[h][t].vout[k].address,
                       amount |-> chain[h][t].vout[k].value,
                       height |-> h - 1] : k \in DOMAIN chain[h][t].vout } :
                    t \in DOMAIN chain[h] } :
            h \in DOMAIN chain }

\* The outputs spent by the transactions of the blocks up to a height.
SpentUpTo(chain, height) ==
    { <<i.txid, i.vout>> :
        i \in UNION { UNION { chain[h][t].vin : t \in DOMAIN chain[h] } :
                      h \in { g \in DOMAIN chain : g - 1 <= height } } }

\* scantxoutset: the outputs no transaction of the chain has spent.
scantxoutset(chain) ==
    { o \in OutputsOf(chain) : <<o.txid, o.n>> \notin SpentUpTo(chain, tipOf(chain)) }

(***************************************************************************)
(* cli/snapshot.js: the builder                                            *)
(***************************************************************************)
\* Math.round(amount * 1e8)
toSatoshis(amount) == amount.coin * 100000000 + amount.sat

\* new Map(), balances.get(address) || 0n, balances.set(address, amount)
EmptyMap == [a \in {} |-> 0]
mapGet(map, key) == IF key \in DOMAIN map THEN map[key] ELSE 0
mapSet(map, key, value) ==
    [a \in DOMAIN map \cup {key} |-> IF a = key THEN value ELSE map[a]]

RECURSIVE mapSum(_)
mapSum(map) ==
    IF DOMAIN map = {} THEN 0
    ELSE LET a == CHOOSE x \in DOMAIN map : TRUE
         IN  map[a] + mapSum([x \in DOMAIN map \ {a} |-> map[x]])

\* Faulty variant: the height of an output is not looked at.
RECURSIVE aggregateUnspentsAnyHeight(_, _, _)
aggregateUnspentsAnyHeight(unspents, block, balancesMap) ==
    IF unspents = {} THEN balancesMap
    ELSE LET utxo == CHOOSE u \in unspents : TRUE
             rest == unspents \ {utxo}
         IN  IF utxo.address = NULL \/ ~startsWith(utxo.address, "alpha1")
             THEN aggregateUnspentsAnyHeight(rest, block, balancesMap)
             ELSE aggregateUnspentsAnyHeight(rest, block,
                      mapSet(balancesMap, utxo.address,
                             mapGet(balancesMap, utxo.address)
                                + toSatoshis(utxo.amount)))

\* Lines 109-126: the loop of scanUtxoSet over the unspent outputs.
RECURSIVE aggregateUnspents(_, _, _)
aggregateUnspents(unspents, block, balancesMap) ==
    IF unspents = {} THEN balancesMap
    ELSE LET utxo == CHOOSE u \in unspents : TRUE
             rest == unspents \ {utxo}
         IN  IF utxo.height > block
             THEN aggregateUnspents(rest, block, balancesMap)
             ELSE IF utxo.address = NULL
             THEN aggregateUnspents(rest, block, balancesMap)
             ELSE IF ~startsWith(utxo.address, "alpha1")
             THEN aggregateUnspents(rest, block, balancesMap)
             ELSE aggregateUnspents(rest, block,
                      mapSet(balancesMap, utxo.address,
                             mapGet(balancesMap, utxo.address)
                                + toSatoshis(utxo.amount)))

\* Lines 164-183: the loop of scanBlockByBlock over the outputs of a
\* transaction, from output k on.
RECURSIVE processOutputs(_, _, _, _)
processOutputs(balancesMap, spent, tx, k) ==
    IF k > Len(tx.vout) THEN balancesMap
    ELSE LET output == tx.vout[k]
         IN  IF <<tx.txid, k - 1>> \in spent
             THEN processOutputs(balancesMap, spent, tx, k + 1)
             ELSE IF output.address = NULL \/ ~startsWith(output.address, "alpha1")
             THEN processOutputs(balancesMap, spent, tx, k + 1)
             ELSE processOutputs(
                      mapSet(balancesMap, output.address,
                             mapGet(balancesMap, output.address)
                                + toSatoshis(output.value)),
                      spent, tx, k + 1)

\* Lines 154-184: the transactions of a block, from transaction t on: the
\* inputs of a transaction are marked spent, then its outputs are added.
RECURSIVE processBlock(_, _, _)
processBlock(scan, blockTxs, t) ==
    IF t > Len(blockTxs) THEN scan
    ELSE LET tx == blockTxs[t]
             spent == scan.spent \cup
                        { <<vin.txid, vin.vout>> :
                            vin \in { i \in tx.vin : i.txid # NULL } }
         IN  processBlock([balances |-> processOutputs(scan.balances, spent, tx, 1),
                           spent |-> spent],
                          blockTxs, t + 1)

\* Lines 146-185: the blocks from a height up to opts.block.
RECURSIVE scanBlocks(_, _, _, _)
scanBlocks(chain, height, block, scan) ==
    IF height > block THEN scan
    ELSE scanBlocks(chain, height + 1, block,
                    processBlock(scan, chain[height + 1], 1))

\* The file at the output path: absent, or a database.
\* The balances table with no row.
EmptyTable == [a \in {} |-> insertBalance(a, 0)]

NoMeta == [block_height |-> -1, address_count |-> 0, total_amount |-> 0]
NoFile == [exists |-> FALSE, balances |-> EmptyMap, meta |-> NoMeta]
OldDatabase ==
    [exists |-> TRUE,
     balances |-> [a \in {addressOf(2)} |-> insertBalance(a, 7)],
     meta |-> [block_height |-> 0, address_count |-> 1, total_amount |-> 7]]

\* Faulty variant: total_amount is left at the default of its column.
createDatabaseNoTotal(file, balancesMap, block) ==
    IF file.exists
    THEN [disk |-> file, exitCode |-> 1]
    ELSE [disk |-> [exists |-> TRUE,
                    balances |-> [a \in DOMAIN balancesMap |->
                                     insertBalance(a, balancesMap[a])],
                    meta |-> [block_height |-> block,
                              address_count |-> Cardinality(DOMAIN balancesMap),
                              total_amount |-> 0]],
          exitCode |-> 0]

\* Faulty variant: the output path is not checked.
createDatabaseOverwrite(file, balancesMap, block) ==
    [disk |-> [exists |-> TRUE,
               balances |-> [a \in DOMAIN balancesMap |->
                                insertBalance(a, balancesMap[a])],
               meta |-> [block_height |-> block,
                         address_count |-> Cardinality(DOMAIN balancesMap),
                         total_amount |-> mapSum(balancesMap)]],
     exitCode |-> 0]

\* Lines 194-307: createDatabase, with the exit code of the process.
createDatabase(file, balancesMap, block) ==
    IF file.exists
    THEN [disk |-> file, exitCode |-> 1]
    ELSE [disk |-> [exists |-> TRUE,
                    balances |-> [a \in DOMAIN balancesMap |->
                                     insertBalance(a, balancesMap[a])],
                    meta |-> [block_height |-> block,
                              address_count |-> Cardinality(DOMAIN balancesMap),
                              total_amount |-> mapSum(balancesMap)]],
          exitCode |-> 0]

NoScan == [balances |-> EmptyMap, spent |-> {}]
NoRun ==
    [pc |-> "off", chain |-> <<>>, block |-> 0, existedAtStart |-> FALSE,
     path |-> "none", height |-> 0, scan |-> NoScan, rpcErrors |-> {},
     exitCode |-> -1]

NoHashTest ==
    [stage |-> "off", message |-> "", verifier |-> createMessageHash(""),
     fixture |-> fixtureCreateMessageHash("")]

NoStoreCall ==
    [op |-> "none", l1Address |-> NULL, ok |-> FALSE, result |-> NoBalanceInfo]

NotValidated == [valid |-> FALSE, error |-> NULL, normalized |-> NULL]
NotDecoded ==
    [ok |-> FALSE, error |-> NoError, witnessVersion |-> -1,
     pubKeyHash |-> [h |-> 0, len |-> 0]]
NoAddrTest ==
    [stage |-> "off", hash |-> [h |-> 0, len |-> 0], text |-> NULL,
     done |-> {}, asIs |-> NotValidated, ofLower |-> NotValidated,
     ofUpper |-> NotValidated, decoded |-> NotDecoded]

NotParsed ==
    [ok |-> FALSE, error |-> NoError, v |-> 0,
     rs |-> ecSign(0, createMessageHash("")), recoveryParam |-> -1]

NoSigTest ==
    [stage |-> "off", priv |-> 0, unicityId |-> NULL, amount |-> 0,
     signature |-> SigText(FALSE, FALSE, 0, toHexByte(0), ecSign(0, createMessageHash(""))),
     l1Address |-> NULL, checkedId |-> NULL, checkedAmount |-> 0,
     result |-> VerifyFailure(NoError), parsed |-> NotParsed]

Init ==
    /\ balances = Snapshot
    /\ mint_requests = <<>>
    /\ claims = [c \in Claims |-> IdleClaim]
    /\ clock = 0
    /\ server = Listening
    /\ hashTest = NoHashTest
    /\ storeCall = NoStoreCall
    /\ sigTest = NoSigTest
    /\ snap = NoRun
    /\ disk = NoFile
    /\ addrTest = NoAddrTest

Next ==
    \/ \E c \in Claims, a \in RawAddresses, u \in UnicityIds, m \in Amounts :
          \E sig \in SignaturesFor[a, u, m] : Request(c, a, u, m, sig)
    \/ \E c \in Claims : Reserve(c)
    \/ \E c \in Claims, response \in UpstreamResponses : Relay(c, response)

Spec == Init /\ [][Next]_vars

(***************************************************************************)
(* The server under a termination signal.  While Fastify is closing it     *)
(* takes no new request; process.exit ends every handler.                  *)
(***************************************************************************)
\* A handler of the claim route is running or suspended.
InFlight(claim) == claim.pc \notin {"idle", "done"}

\* Faulty variant: fastify.close() is not awaited.
closeResolvedAtOnce(cl) == TRUE

\* await fastify.close(): Fastify resolves it when the listener is closed
\* and the requests it had accepted have been answered.
closeResolved(cl) == \A c \in Claims : ~InFlight(cl[c])

\* process.on('SIGTERM' / 'SIGINT'): shutdown starts and awaits fastify.close().
Signal ==
    /\ server.phase = "listening"
    /\ server' = [server EXCEPT !.phase = "closing"]
    /\ UNCHANGED <<balances, mint_requests, claims, clock, storeCall, sigTest, snap, disk, addrTest, hashTest>>

\* shutdown, lines 103-104: balanceRepo.close() and process.exit(0), in one
\* turn of the event loop.
CloseStore ==
    /\ server.phase = "closing"
    /\ closeResolved(claims)
    /\ server' = [phase |-> "exited", storeOpen |-> FALSE]
    /\ UNCHANGED <<balances, mint_requests, claims, clock, storeCall, sigTest, snap, disk, addrTest, hashTest>>

Running == server.phase # "exited"

NextShutdown ==
    \/ \E c \in Claims, a \in RawAddresses, u \in UnicityIds, m \in Amounts :
          \E sig \in SignaturesFor[a, u, m] :
             server.phase = "listening" /\ Request(c, a, u, m, sig)
    \/ \E c \in Claims : Running /\ Reserve(c)
    \/ \E c \in Claims, response \in UpstreamResponses : Running /\ Relay(c, response)
    \/ Signal
    \/ CloseStore

SpecShutdown == Init /\ [][NextShutdown]_vars

(***************************************************************************)
(* The pipeline before an upstream that never answers.  mintToken passes   *)
(* no headersTimeout to undici's request(), so the dispatcher arms its     *)
(* default timer when the request is sent; when the timer fires request()  *)
(* rejects and mintToken throws FaucetError.                               *)
(***************************************************************************)
\* Faulty variant: the request is sent with headersTimeout 0, no timer.
timerArmedNever(claim) == FALSE

\* mintToken, lines 29-37: the request is out and its timer is running.
timerArmed(claim) == claim.pc = "relay"

\* What the rejected request looks like to mintToken's catch.
TimedOut == [netError |-> TRUE, statusCode |-> 0, requestId |-> NULL, txId |-> NULL]

RelayTimeout(c) == timerArmed(claims[c]) /\ Relay(c, TimedOut)

NextSilent ==
    \/ \E c \in Claims, a \in RawAddresses, u \in UnicityIds, m \in Amounts :
          \E sig \in SignaturesFor[a, u, m] : Request(c, a, u, m, sig)
    \/ \E c \in Claims : Reserve(c)
    \/ \E c \in Claims : RelayTimeout(c)

\* The timer is the event loop's: once armed it fires.
SpecSilent ==
    Init /\ [][NextSilent]_vars /\ \A c \in Claims : WF_vars(RelayTimeout(c))

(***************************************************************************)
(* The two message hashers on the same message: the signed text of a claim *)
(* whose destination is of any length up to MaxIdLen.                      *)
(***************************************************************************)
MaxIdLen == 270

RECURSIVE idOfLength(_)
idOfLength(n) ==
    IF n = 0 THEN ""
    ELSE IF n % 2 = 1 THEN "d" \o idOfLength(n - 1)
    ELSE LET half == idOfLength(n \div 2) IN half \o half

InitHash ==
    /\ balances = Snapshot
    /\ mint_requests = <<>>
    /\ claims = [c \in Claims |-> IdleClaim]
    /\ clock = 0
    /\ server = Listening
    /\ storeCall = NoStoreCall
    /\ sigTest = NoSigTest
    /\ snap = NoRun
    /\ disk = NoFile
    /\ addrTest = NoAddrTest
    /\ \E n \in 1..MaxIdLen :
          hashTest = [NoHashTest EXCEPT
                        !.stage = "message",
                        !.message = createMessage(addressOf(1), idOfLength(n), 2)]

\* verifySignature and signMintRequest each hash the message.
HashBoth ==
    /\ hashTest.stage = "message"
    /\ hashTest' = [hashTest EXCEPT
                      !.stage = "hashed",
                      !.verifier = createMessageHash(hashTest.message),
                      !.fixture = fixtureCreateMessageHash(hashTest.message)]
    /\ UNCHANGED <<balances, mint_requests, claims, clock, storeCall, sigTest, snap, disk, addrTest, server>>

NextHash == HashBoth

SpecHash == InitHash /\ [][NextHash]_vars

(***************************************************************************)
(* The pipeline over a store whose calls may throw.                        *)
(***************************************************************************)
NextFaults ==
    \/ Next
    \/ \E c \in Claims, a \in RawAddresses, u \in UnicityIds, m \in Amounts,
          fault \in RequestFaults :
          \E sig \in SignaturesFor[a, u, m] : RequestFault(c, a, u, m, sig, fault)
    \/ \E c \in Claims, fault \in ReserveFaults : ReserveFault(c, fault)
    \/ \E c \in Claims, response \in UpstreamResponses, fault \in RelayFaults :
          RelayFault(c, response, fault)

SpecFaults == Init /\ [][NextFaults]_vars

(***************************************************************************)
(* The pipeline over a store whose conditional UPDATE may report that it   *)
(* changed no row.                                                         *)
(***************************************************************************)
NextRaced ==
    \/ Next
    \/ \E c \in Claims : ReserveRaced(c)

SpecRaced == Init /\ [][NextRaced]_vars

(***************************************************************************)
(* processMintRequest called directly, with any arguments.                 *)
(***************************************************************************)
NextDirect ==
    \/ \E c \in Claims, a \in RawAddresses, u \in UnicityIds, m \in Amounts :
          \E sig \in SignaturesFor[a, u, m] : Invoke(c, a, u, m, sig)
    \/ \E c \in Claims : Reserve(c)
    \/ \E c \in Claims, response \in UpstreamResponses : Relay(c, response)

SpecDirect == Init /\ [][NextDirect]_vars

(***************************************************************************)
(* The store on its own: markAsSpent and atomicMarkAsSpent called directly, *)
(* with any arguments and in any order, while time passes.                 *)
(***************************************************************************)
TxIds == { "pending", "r1" }

CallMarkAsSpent(l1Address, unicityId, mintTxId) ==
    LET marked == markAsSpent(balances, l1Address, unicityId, mintTxId, now)
    IN  /\ balances' = marked.balances
        /\ storeCall' = [op |-> "markAsSpent", l1Address |-> l1Address,
                         ok |-> marked.ok, result |-> NoBalanceInfo]
        /\ UNCHANGED <<mint_requests, claims, clock, sigTest, snap, disk, addrTest, server, hashTest>>

CallAtomicMarkAsSpent(l1Address, unicityId, mintTxId) ==
    LET atomicResult == atomicMarkAsSpent(balances, l1Address, unicityId,
                                          mintTxId, now)
    IN  /\ balances' = atomicResult.balances
        /\ storeCall' = [op |-> "atomicMarkAsSpent", l1Address |-> l1Address,
                         ok |-> atomicResult.success, result |-> NoBalanceInfo]
        /\ UNCHANGED <<mint_requests, claims, clock, sigTest, snap, disk, addrTest, server, hashTest>>

\* BalanceService.getBalance called directly.
CallGetBalance(l1Address) ==
    /\ storeCall' = [op |-> "getBalance", l1Address |-> l1Address, ok |-> TRUE,
                     result |-> getBalance(balances, l1Address)]
    /\ UNCHANGED <<balances, mint_requests, claims, clock, sigTest, snap, disk, addrTest, server, hashTest>>

\* Time passes.
Tick ==
    /\ clock < MaxClock
    /\ clock' = clock + 1
    /\ UNCHANGED <<balances, mint_requests, claims, storeCall, sigTest, snap, disk, addrTest, server, hashTest>>

NextStore ==
    \/ \E a \in RawAddresses, u \in UnicityIds \ {""}, t \in TxIds :
          CallMarkAsSpent(a, u, t)
    \/ \E a \in RawAddresses, u \in UnicityIds \ {""}, t \in TxIds :
          CallAtomicMarkAsSpent(a, u, t)
    \/ \E a \in RawAddresses : CallGetBalance(a)
    \/ Tick

SpecStore == Init /\ [][NextStore]_vars

(***************************************************************************)
(* Claims through the route while the store is also called directly and    *)
(* time passes.                                                            *)
(***************************************************************************)
\* The destination of the direct calls, which no claim of the route names.
OtherDestination == "d9"

NextMixed ==
    \/ \E c \in Claims, a \in RawAddresses, u \in UnicityIds, m \in Amounts :
          \E sig \in SignaturesFor[a, u, m] : Request(c, a, u, m, sig)
    \/ \E c \in Claims : Reserve(c)
    \/ \E c \in Claims, response \in UpstreamResponses : Relay(c, response)
    \/ \E a \in DOMAIN balances : CallMarkAsSpent(a, OtherDestination, "r1")
    \/ \E a \in DOMAIN balances : CallAtomicMarkAsSpent(a, OtherDestination, "pending")
    \/ Tick

SpecMixed == Init /\ [][NextMixed]_vars

(***************************************************************************)
(* The store being filled: insertBalancesBatch called with any batch on a  *)
(* table that starts empty, between reservations.                          *)
(***************************************************************************)
\* The for loop of insertMany: INSERT INTO balances (l1_address,
\* initial_amount) VALUES (?, ?) for each item in turn; the statement
\* throws on a primary key that is in the table already.
RECURSIVE insertMany(_, _)
insertMany(bal, items) ==
    IF items = <<>> THEN [balances |-> bal, threw |-> FALSE]
    ELSE LET item == Head(items)
         IN  IF item.address \in DOMAIN bal
             THEN [balances |-> bal, threw |-> TRUE]
             ELSE insertMany(bal @@ (item.address :>
                                        insertBalance(item.address, item.amount)),
                             Tail(items))

\* Faulty variant: the loop runs outside a transaction.
insertBalancesBatchNoTransaction(bal, items) ==
    LET ran == insertMany(bal, items)
    IN  [balances |-> ran.balances,
         error |-> IF ran.threw THEN DatabaseError("Batch insert failed")
                   ELSE NoError]

\* Lines 95-107: db.transaction rolls the inserts back when the loop throws.
insertBalancesBatch(bal, items) ==
    LET ran == insertMany(bal, items)
    IN  IF ran.threw
        THEN [balances |-> bal, error |-> DatabaseError("Batch insert failed")]
        ELSE [balances |-> ran.balances, error |-> NoError]

BatchItems == [address : {addressOf(1), addressOf(2), addressOf(3)}, amount : {2, 3}]
Batches == { <<x>> : x \in BatchItems } \cup { <<x, y>> : x, y \in BatchItems }

CallInsertBalancesBatch(items) ==
    LET inserted == insertBalancesBatch(balances, items)
    IN  /\ balances' = inserted.balances
        /\ storeCall' = [op |-> "insertBalancesBatch", l1Address |-> NULL,
                         ok |-> inserted.error = NoError, result |-> NoBalanceInfo]
        /\ UNCHANGED <<mint_requests, claims, clock, sigTest, snap, disk, addrTest, server, hashTest>>

InitBatch ==
    /\ balances = EmptyTable
    /\ mint_requests = <<>>
    /\ claims = [c \in Claims |-> IdleClaim]
    /\ clock = 0
    /\ server = Listening
    /\ hashTest = NoHashTest
    /\ storeCall = NoStoreCall
    /\ sigTest = NoSigTest
    /\ snap = NoRun
    /\ disk = NoFile
    /\ addrTest = NoAddrTest

NextBatch ==
    \/ \E items \in Batches : CallInsertBalancesBatch(items)
    \/ \E a \in DOMAIN balances, u \in UnicityIds \ {""} :
          CallAtomicMarkAsSpent(a, u, "pending")

SpecBatch == InitBatch /\ [][NextBatch]_vars

(***************************************************************************)
(* The signature service on its own: a key signs a claim of its own        *)
(* address with createSignature, and the signature is verified against an  *)
(* address, a destination and an amount.                                   *)
(***************************************************************************)
InitSig ==
    /\ balances = Snapshot
    /\ mint_requests = <<>>
    /\ claims = [c \in Claims |-> IdleClaim]
    /\ clock = 0
    /\ server = Listening
    /\ hashTest = NoHashTest
    /\ storeCall = NoStoreCall
    /\ snap = NoRun
    /\ disk = NoFile
    /\ addrTest = NoAddrTest
    /\ \E k \in Keys, u \in UnicityIds, m \in Amounts :
          sigTest = [NoSigTest EXCEPT !.stage = "input", !.priv = k,
                                      !.unicityId = u, !.amount = m]

SigCreate ==
    /\ sigTest.stage = "input"
    /\ sigTest' = [sigTest EXCEPT
                      !.stage = "signed",
                      !.signature = createSignature(sigTest.priv,
                                        addressOf(sigTest.priv),
                                        sigTest.unicityId, sigTest.amount)]
    /\ UNCHANGED <<balances, mint_requests, claims, clock, storeCall, snap, disk, addrTest, server, hashTest>>

SigVerify(l1Address, unicityId, amount) ==
    /\ sigTest.stage = "signed"
    /\ sigTest' = [sigTest EXCEPT
                      !.stage = "verified",
                      !.l1Address = l1Address,
                      !.checkedId = unicityId,
                      !.checkedAmount = amount,
                      !.result = verifySignature(l1Address, unicityId, amount,
                                                 sigTest.signature)]
    /\ UNCHANGED <<balances, mint_requests, claims, clock, storeCall, snap, disk, addrTest, server, hashTest>>

NextSig ==
    \/ SigCreate
    \/ \E a \in RawAddresses, u \in UnicityIds, m \in Amounts : SigVerify(a, u, m)

SpecSig == InitSig /\ [][NextSig]_vars

(***************************************************************************)
(* parseSignature on its own: a text of 130 hex characters with any header *)
(* byte and any r and s from 0 to past the group order.                    *)
(***************************************************************************)
HeaderBytes == 0..255
Scalars == 0..(curveOrder + 1)

InitParse ==
    /\ balances = Snapshot
    /\ mint_requests = <<>>
    /\ claims = [c \in Claims |-> IdleClaim]
    /\ clock = 0
    /\ server = Listening
    /\ hashTest = NoHashTest
    /\ storeCall = NoStoreCall
    /\ snap = NoRun
    /\ disk = NoFile
    /\ addrTest = NoAddrTest
    /\ \E v \in HeaderBytes, r \in Scalars, s \in Scalars :
          sigTest = [NoSigTest EXCEPT
                        !.stage = "input",
                        !.signature = SigText(FALSE, TRUE, 130, toHexByte(v),
                                              [NotParsed.rs EXCEPT !.r = r, !.s = s])]

SigParse ==
    /\ sigTest.stage = "input"
    /\ sigTest' = [sigTest EXCEPT !.stage = "parsed",
                                  !.parsed = parseSignature(sigTest.signature)]
    /\ UNCHANGED <<balances, mint_requests, claims, clock, storeCall, snap, disk, addrTest, server, hashTest>>

NextParse == SigParse

SpecParse == InitParse /\ [][NextParse]_vars

(***************************************************************************)
(* The address service on its own: a text is validated as it is, in lower  *)
(* case and in upper case; a 20-byte hash is encoded, and the address it   *)
(* gives is validated and decoded.                                         *)
(***************************************************************************)
Hashes == { hash160(getPublic(k)) : k \in Keys \cup {GarbageKey} }

InitAddress ==
    /\ balances = Snapshot
    /\ mint_requests = <<>>
    /\ claims = [c \in Claims |-> IdleClaim]
    /\ clock = 0
    /\ server = Listening
    /\ hashTest = NoHashTest
    /\ storeCall = NoStoreCall
    /\ sigTest = NoSigTest
    /\ snap = NoRun
    /\ disk = NoFile
    /\ \/ \E x \in AddressTexts :
             addrTest = [NoAddrTest EXCEPT !.stage = "text", !.text = x]
       \/ \E h \in Hashes :
             addrTest = [NoAddrTest EXCEPT !.stage = "hash", !.hash = h]

AddrEncode ==
    /\ addrTest.stage = "hash"
    /\ addrTest' = [addrTest EXCEPT !.stage = "encoded",
                                    !.text = encodeAddress(addrTest.hash)]
    /\ UNCHANGED <<balances, mint_requests, claims, clock, storeCall, sigTest, snap, disk, server, hashTest>>

AddrValidate(form) ==
    /\ addrTest.stage \in {"text", "encoded"}
    /\ form \notin addrTest.done
    /\ addrTest' =
          [addrTest EXCEPT
             !.done = @ \cup {form},
             !.asIs = IF form = "asIs" THEN validateAddress(addrTest.text) ELSE @,
             !.ofLower = IF form = "ofLower"
                         THEN validateAddress(toLowerCase(addrTest.text)) ELSE @,
             !.ofUpper = IF form = "ofUpper"
                         THEN validateAddress(toUpperCase(addrTest.text)) ELSE @]
    /\ UNCHANGED <<balances, mint_requests, claims, clock, storeCall, sigTest, snap, disk, server, hashTest>>

AddrDecode ==
    /\ addrTest.stage \in {"text", "encoded"}
    /\ "decoded" \notin addrTest.done
    /\ addrTest' = [addrTest EXCEPT !.done = @ \cup {"decoded"},
                                    !.decoded = decodeAddress(addrTest.text)]
    /\ UNCHANGED <<balances, mint_requests, claims, clock, storeCall, sigTest, snap, disk, server, hashTest>>

NextAddress ==
    \/ AddrEncode
    \/ \E form \in {"asIs", "ofLower", "ofUpper"} : AddrValidate(form)
    \/ AddrDecode

SpecAddress == InitAddress /\ [][NextAddress]_vars

(***************************************************************************)
(* A run of the snapshot builder against a node that serves one of the     *)
(* chains, for a block height and an output path; any RPC call may fail.   *)
(***************************************************************************)
InitSnapshot ==
    /\ balances = Snapshot
    /\ mint_requests = <<>>
    /\ claims = [c \in Claims |-> IdleClaim]
    /\ clock = 0
    /\ server = Listening
    /\ hashTest = NoHashTest
    /\ storeCall = NoStoreCall
    /\ sigTest = NoSigTest
    /\ addrTest = NoAddrTest
    /\ disk \in {NoFile, OldDatabase}
    /\ \E chain \in Chains, block \in 0..(MaxHeight + 1) :
          snap = [NoRun EXCEPT !.pc = "main", !.chain = chain, !.block = block,
                               !.existedAtStart = disk.exists]

serverVars ==
    <<balances, mint_requests, claims, clock, storeCall, sigTest, addrTest, server, hashTest>>

\* process.exit(code)
Exit(code) == [snap EXCEPT !.pc = "exit", !.exitCode = code]

\* Faulty variant: the failure is logged and the process exits with code 0.
ThrowExitZero(method) ==
    [snap EXCEPT !.pc = "exit", !.exitCode = 0, !.rpcErrors = @ \cup {method}]

\* rpcCall throws: main's catch exits with code 1.  rpcErrors keeps the names
\* of the calls that failed during the run.
Throw(method) ==
    [snap EXCEPT !.pc = "exit", !.exitCode = 1, !.rpcErrors = @ \cup {method}]

\* main, lines 320-325: the connection test.
TestConnection(rpcOk) ==
    /\ snap.pc = "main"
    /\ snap' = IF rpcOk THEN [snap EXCEPT !.pc = "scan"]
               ELSE Throw("getblockchaininfo")
    /\ UNCHANGED <<serverVars, disk>>

\* scanUtxoSet, lines 78-134: rpc names the call that fails, "none" when
\* every call succeeds.  A failure of scantxoutset leads to the fallback.
ScanUtxoSet(rpc) ==
    /\ snap.pc = "scan"
    /\ snap' =
         IF rpc = "getblockchaininfo" THEN Throw(rpc)
         ELSE IF snap.block > tipOf(snap.chain) THEN Exit(1)
         ELSE IF rpc = "getblockhash" THEN Throw(rpc)
         ELSE IF rpc = "scantxoutset"
         THEN [snap EXCEPT !.pc = "fallback", !.path = "fallback", !.height = 0,
                           !.rpcErrors = @ \cup {rpc}]
         ELSE [snap EXCEPT
                 !.pc = "create", !.path = "primary",
                 !.scan.balances =
                     aggregateUnspents(scantxoutset(snap.chain), snap.block,
                                       EmptyMap)]
    /\ UNCHANGED <<serverVars, disk>>

\* scanBlockByBlock, lines 146-185: one block of the replay.
ScanBlock(rpcOk) ==
    /\ snap.pc = "fallback"
    /\ snap.height <= snap.block
    /\ snap' = IF ~rpcOk THEN Throw("getblock")
               ELSE [snap EXCEPT
                       !.height = @ + 1,
                       !.scan = processBlock(snap.scan,
                                             snap.chain[snap.height + 1], 1)]
    /\ UNCHANGED <<serverVars, disk>>

\* scanBlockByBlock, lines 187-188: the hash of the snapshot block.
FinishScan(rpcOk) ==
    /\ snap.pc = "fallback"
    /\ snap.height > snap.block
    /\ snap' = IF rpcOk THEN [snap EXCEPT !.pc = "create"]
               ELSE Throw("getblockhash")
    /\ UNCHANGED <<serverVars, disk>>

\* main, lines 334-337: createDatabase and the exit of the process.
CreateDatabase ==
    LET created == createDatabase(disk, snap.scan.balances, snap.block)
    IN  /\ snap.pc = "create"
        /\ disk' = created.disk
        /\ snap' = Exit(created.exitCode)
        /\ UNCHANGED serverVars

NextSnapshot ==
    \/ \E rpcOk \in BOOLEAN : TestConnection(rpcOk)
    \/ \E rpc \in {"none", "getblockchaininfo", "getblockhash", "scantxoutset"} :
          ScanUtxoSet(rpc)
    \/ \E rpcOk \in BOOLEAN : ScanBlock(rpcOk)
    \/ \E rpcOk \in BOOLEAN : FinishScan(rpcOk)
    \/ CreateDatabase

SpecSnapshot == InitSnapshot /\ [][NextSnapshot]_vars

(***************************************************************************)
(* A run of the snapshot builder, and then the claim server started on the *)
(* database the run wrote.                                                 *)
(***************************************************************************)
\* index.js: initDatabase(config.dbPath) opens the file; CREATE TABLE IF NOT
\* EXISTS leaves the rows of an existing database as they are.  From here on
\* the variable balances is the balances table of the file, and disk.meta its
\* snapshot_meta row.
OpenDatabase ==
    /\ snap.pc = "exit" /\ snap.exitCode = 0
    /\ snap' = [NoRun EXCEPT !.pc = "served"]
    /\ balances' = disk.balances
    /\ UNCHANGED <<mint_requests, claims, clock, storeCall, sigTest, disk, addrTest, server, hashTest>>

Serving == snap.pc = "served"

NextServed ==
    \/ NextSnapshot
    \/ OpenDatabase
    \/ \E c \in Claims, a \in RawAddresses, u \in UnicityIds, m \in Amounts :
          \E sig \in SignaturesFor[a, u, m] : Serving /\ Request(c, a, u, m, sig)
    \/ \E c \in Claims : Serving /\ Reserve(c)
    \/ \E c \in Claims, response \in UpstreamResponses :
          Serving /\ Relay(c, response)

SpecServed == InitSnapshot /\ [][NextServed]_vars

(***************************************************************************)
(* The claim server started where no database file is, and a run of the    *)
(* snapshot builder for the same path after it.                            *)
(***************************************************************************)
\* index.js before start(): the process has not opened its store.
Starting == [phase |-> "starting", storeOpen |-> FALSE]

\* Faulty variant: the server does not create a file that is missing.
initDatabaseOpensOnly(file) == file

\* db/index.js, initDatabase: new Database(dbPath) creates the file when
\* there is none, and CREATE TABLE IF NOT EXISTS makes the tables, with no
\* row in any of them; the rows of an existing file are left as they are.
initDatabase(file) ==
    IF file.exists THEN file
    ELSE [exists |-> TRUE, balances |-> EmptyTable, meta |-> NoMeta]

\* index.js, lines 50-56 and start(): the store is opened and the server
\* listens.
StartServer ==
    LET opened == initDatabase(disk)
    IN  /\ server.phase = "starting"
        /\ disk' = opened
        /\ balances' = opened.balances
        /\ server' = Listening
        /\ UNCHANGED <<mint_requests, claims, clock, storeCall, sigTest, snap, addrTest, hashTest>>

\* The builder is started for a chain and a block, after the server.
StartSnapshot(chain, block) ==
    /\ server.phase = "listening"
    /\ snap.pc = "off"
    /\ snap' = [NoRun EXCEPT !.pc = "main", !.chain = chain, !.block = block,
                             !.existedAtStart = disk.exists]
    /\ UNCHANGED <<serverVars, disk>>

\* The builder has exited and the server is up: claims come in.
Refused == server.phase = "listening" /\ snap.pc = "exit"

InitFresh ==
    /\ balances = EmptyTable
    /\ mint_requests = <<>>
    /\ claims = [c \in Claims |-> IdleClaim]
    /\ clock = 0
    /\ server = Starting
    /\ hashTest = NoHashTest
    /\ storeCall = NoStoreCall
    /\ sigTest = NoSigTest
    /\ snap = NoRun
    /\ disk = NoFile
    /\ addrTest = NoAddrTest

NextFresh ==
    \/ StartServer
    \/ \E chain \in Chains, block \in {0, MaxHeight + 1} : StartSnapshot(chain, block)
    \/ NextSnapshot
    \/ \E c \in Claims, a \in RawAddresses, u \in UnicityIds, m \in Amounts :
          \E sig \in SignaturesFor[a, u, m] :
             Refused /\ Request(c, a, u, m, sig)

SpecFresh == InitFresh /\ [][NextFresh]_vars

(***************************************************************************)
(* Properties                                                              *)
(***************************************************************************)
rowOf(l1Address) == findByAddress(balances, l1Address).record

\* The claim was answered with the already-minted error, status 409.
AlreadyConsumed(claim) ==
    /\ claim.pc = "done"
    /\ claim.error.name = "AlreadyMintedError"
    /\ claim.statusCode = 409

\* C1: of the claims of one address that call atomicMarkAsSpent, exactly one
\* is told success; every other one fails and is answered as already
\* minted.  No two claims reserve the same address.
C1_ExactlyOneReserves ==
    /\ \A c, d \in Claims :
          (c # d /\ claims[c].l1Address = claims[d].l1Address)
             => ~(claims[c].atomic = "success" /\ claims[d].atomic = "success")
    /\ \A c \in Claims :
          claims[c].atomic \notin {"none", "success"}
             => /\ AlreadyConsumed(claims[c])
                /\ \E d \in Claims :
                      /\ claims[d].l1Address = claims[c].l1Address
                      /\ claims[d].atomic = "success"

\* Two claims passed their checks against the same fresh row and both called
\* atomicMarkAsSpent: one reserved, the other was refused.
C1_Witness ==
    \E c, d \in Claims :
        /\ c # d
        /\ claims[c].l1Address = claims[d].l1Address
        /\ claims[c].sawRow = "fresh" /\ claims[d].sawRow = "fresh"
        /\ claims[c].atomic = "success"
        /\ claims[d].atomic = "already_minted"

\* C2: the upstream mint is called at most once per address and at most once
\* per claim, only by a claim whose atomicMarkAsSpent returned success; a
\* claim whose upstream call failed has made that one call and no other.
C2_MintAtMostOnce ==
    /\ \A c \in Claims :
          /\ claims[c].mintCalls <= 1
          /\ claims[c].mintCalls = 1 => claims[c].atomic = "success"
          /\ claims[c].error.name = "FaucetError" => claims[c].mintCalls = 1
    /\ \A c, d \in Claims :
          (c # d /\ claims[c].l1Address = claims[d].l1Address)
             => claims[c].mintCalls + claims[d].mintCalls <= 1

\* The upstream failed for one claim and a second claim of the same address
\* has been answered since: one call was made in all.
C2_Witness ==
    \E c, d \in Claims :
        /\ c # d
        /\ claims[c].l1Address = claims[d].l1Address
        /\ claims[c].pc = "done" /\ claims[c].error.name = "FaucetError"
        /\ claims[c].mintCalls = 1
        /\ claims[d].pc = "done" /\ claims[d].requestId > claims[c].requestId
        /\ claims[d].mintCalls = 0

\* C4: whenever processMintRequest has returned success with txId t, the
\* stored mint_tx_id of that address is t.
C4_TxIdStored ==
    \A c \in Claims :
        (claims[c].pc = "done" /\ claims[c].statusCode = 200)
           => rowOf(claims[c].l1Address).mint_tx_id = claims[c].txId

\* The upstream mint of the claim failed after its reservation.
UpstreamFailed(claim) == claim.pc = "done" /\ claim.error.name = "FaucetError"

\* What an upstream failure leaves behind: the answer is 502, the row is
\* spent with mint_tx_id "pending" and the destination of the claim, and the
\* log row of the claim is failed.
C5_LeftBehind ==
    \A c \in Claims :
        UpstreamFailed(claims[c])
           => /\ claims[c].statusCode = 502
              /\ rowOf(claims[c].l1Address).spent = 1
              /\ rowOf(claims[c].l1Address).mint_tx_id = "pending"
              /\ rowOf(claims[c].l1Address).unicity_id = claims[c].unicityId
              /\ mint_requests[claims[c].requestId].status = "failed"

\* Claim d is answered in this step, for the address of a claim whose
\* upstream mint has failed before.
AnsweredAfterFailure(c, d) ==
    /\ c # d
    /\ UpstreamFailed(claims[c])
    /\ claims[d].pc # "done"
    /\ claims'[d].pc = "done"
    /\ claims'[d].l1Address = claims[c].l1Address

\* C5 as stated: after an upstream failure the claim is answered 502, the
\* row stays spent with "pending" and the claim's destination, its log row
\* is failed, and every claim of the same address answered later is
\* answered as already minted.
C5_EveryLaterClaim ==
    [][ /\ C5_LeftBehind'
        /\ \A c, d \in Claims :
              AnsweredAfterFailure(c, d) => AlreadyConsumed(claims'[d]) ]_vars

\* C5 as amended: the same, for every later claim whose body matches the
\* request schema (non-empty destination, amount of at least 1, signature
\* of 130 hex characters).
C5_EveryLaterValidClaim ==
    [][ /\ C5_LeftBehind'
        /\ \A c, d \in Claims :
              (AnsweredAfterFailure(c, d) /\ claims'[d].schemaOk)
                 => AlreadyConsumed(claims'[d]) ]_vars

\* A claim failed at the upstream, and a claim logged after it for the same
\* address, with another destination, was refused as already minted.
C5_Witness ==
    \E c, d \in Claims :
        /\ UpstreamFailed(claims[c])
        /\ claims[d].l1Address = claims[c].l1Address
        /\ claims[d].requestId > claims[c].requestId
        /\ claims[d].sawRow = "spent"
        /\ claims[d].unicityId # claims[c].unicityId
        /\ AlreadyConsumed(claims[d])
        /\ rowOf(claims[c].l1Address).mint_tx_id = "pending"

\* C6: a row is spent with destination d only if a claim of that address and
\* destination reserved it, and that claim presented a signature made with
\* the key that owns the address over the message of the address, d and the
\* row's initial_amount.
C6_ConsumedOnlyBySigner ==
    \A a \in DOMAIN balances :
        balances[a].spent = 1
           => \E c \in Claims :
                 /\ claims[c].l1Address = a
                 /\ claims[c].unicityId = balances[a].unicity_id
                 /\ claims[c].amount = balances[a].initial_amount
                 /\ claims[c].atomic = "success"
                 /\ claims[c].signedByOwner

\* A row is spent, and a claim of it that lacked the owner's signature has
\* been refused for its signature.
C6_Witness ==
    \E a \in DOMAIN balances, c \in Claims :
        /\ balances[a].spent = 1
        /\ claims[c].l1Address = a
        /\ claims[c].pc = "done"
        /\ ~claims[c].signedByOwner
        /\ claims[c].error.name = "SignatureError"

C10_FailureLeavesRows ==
    [][ \A c \in Claims :
           (/\ claims[c].pc # "done"
            /\ claims'[c].pc = "done"
            /\ claims'[c].atomic # "success")
              => balances' = balances ]_vars

\* Claims have failed for each reason before reservation and at it, and a
\* row they were made against is still as the snapshot wrote it.
C10_Witness ==
    \E c, d \in Claims :
        /\ claims[c].pc = "done" /\ claims[c].sawRow = "fresh"
        /\ claims[c].error.name = "SignatureError"
        /\ claims[d].pc = "done" /\ claims[d].sawRow = "fresh"
        /\ claims[d].error.name = "ValidationError"
        /\ claims[d].l1Address = claims[c].l1Address
        /\ balances[claims[c].l1Address] = Snapshot[claims[c].l1Address]

\* C3: under any calls of markAsSpent and atomicMarkAsSpent, in any order, a
\* row whose spent flag is 1 keeps it: the flag goes from 0 to 1 at most
\* once and never back.
C3_SpentOnce ==
    [][ \A a \in DOMAIN balances :
           /\ a \in DOMAIN balances'
           /\ balances[a].spent = 1 => balances'[a].spent = 1 ]_vars

\* markAsSpent was called on a row that was spent already: the call changed
\* nothing and the row is still spent.
C3_Witness ==
    /\ storeCall.op = "markAsSpent"
    /\ ~storeCall.ok
    /\ findByAddress(balances, storeCall.l1Address).found
    /\ rowOf(storeCall.l1Address).spent = 1

\* The signature under test was made by key priv for its own address.
SignedFor == addressOf(sigTest.priv)

\* C7: a signature made by createSignature(priv, addr, dest, amount) is
\* refused when it is verified against another amount, another destination
\* or the address of another key; against the address of another key it is
\* refused with the address mismatch.
C7_TamperRefused ==
    sigTest.stage = "verified"
       => /\ (\/ sigTest.checkedAmount # sigTest.amount
              \/ sigTest.checkedId # sigTest.unicityId
              \/ \E k \in Keys \ {sigTest.priv} : sigTest.l1Address = addressOf(k))
                => ~sigTest.result.valid
          /\ (\E k \in Keys \ {sigTest.priv} : sigTest.l1Address = addressOf(k))
                => sigTest.result.error = SignatureError("Address mismatch")

\* The signature was verified against the address of another key, with the
\* destination and the amount that were signed.
C7_Witness ==
    /\ sigTest.stage = "verified"
    /\ \E k \in Keys \ {sigTest.priv} : sigTest.l1Address = addressOf(k)
    /\ sigTest.checkedId = sigTest.unicityId
    /\ sigTest.checkedAmount = sigTest.amount
    /\ ~sigTest.result.valid

\* C8: verifySignature(addr, dest, amount, createSignature(priv, addr, dest,
\* amount)) succeeds with derivedAddress = addr, for every key priv with its
\* address addr, every destination and every amount.
C8_RoundTrip ==
    (/\ sigTest.stage = "verified"
     /\ sigTest.l1Address = SignedFor
     /\ sigTest.checkedId = sigTest.unicityId
     /\ sigTest.checkedAmount = sigTest.amount)
       => /\ sigTest.result.valid
          /\ sigTest.result.derivedAddress = SignedFor

\* A signature was verified against what was signed, and accepted.
C8_Witness ==
    /\ sigTest.stage = "verified"
    /\ sigTest.l1Address = SignedFor
    /\ sigTest.checkedId = sigTest.unicityId
    /\ sigTest.checkedAmount = sigTest.amount
    /\ sigTest.result.valid

(***************************************************************************)
(* Error mapping, row invariants and the request log                       *)
(***************************************************************************)
\* C11: a claim whose atomicMarkAsSpent returned race_condition is answered
\* like an already-minted one: AlreadyMintedError, status 409.
C11_RacedAsAlreadyConsumed ==
    \A c \in Claims :
        claims[c].atomic = "race_condition" => AlreadyConsumed(claims[c])

\* C12: a claim is answered 200 exactly when the upstream accepted the mint
\* and the store worked; a failed claim is answered with the status of what
\* made it fail: a store call that threw 500, a body off the schema or an
\* invalid address 400, an absent row 404, a spent row or a lost reservation
\* 409, an amount other than initial_amount 400, a signature that does not
\* verify 400, an upstream failure 502.
C12_StatusOfKind ==
    \A c \in Claims :
        LET claim == claims[c]
            status == claim.statusCode
        IN  claim.pc = "done" =>
              /\ status = 200 <=> (claim.upstream = "ok" /\ claim.fault = "none")
              /\ status = 200 <=> claim.error = NoError
              /\ claim.fault # "none" => status = 500
              /\ claim.fault = "none" =>
                    /\ ~claim.schemaOk => status = 400
                    /\ (claim.schemaOk /\ ~claim.addressOk) => status = 400
                    /\ claim.sawRow = "absent" => status = 404
                    /\ claim.sawRow = "spent" => status = 409
                    /\ (/\ claim.sawRow = "fresh"
                        /\ claim.amount # rowOf(claim.l1Address).initial_amount)
                          => status = 400
                    /\ (claim.sawRow = "fresh" /\ claim.atomic = "none")
                          => status = 400
                    /\ claim.atomic = "already_minted" => status = 409
                    /\ claim.upstream = "failed" => status = 502

\* One claim met a store call that threw and was answered 500, another was
\* answered 404, 409 or 502.
C12_Witness ==
    \E c, d \in Claims :
        /\ claims[c].pc = "done" /\ claims[c].fault # "none"
        /\ claims[c].error.name = "DatabaseError" /\ claims[c].statusCode = 500
        /\ claims[d].pc = "done" /\ claims[d].fault = "none"
        /\ claims[d].statusCode \in {404, 409, 502}

\* C13: every row with spent = 0 has unicity_id, mint_tx_id and minted_at
\* all null.
C13_UnspentRowsBlank ==
    \A a \in DOMAIN balances :
        balances[a].spent = 0
           => /\ balances[a].unicity_id = NULL
              /\ balances[a].mint_tx_id = NULL
              /\ balances[a].minted_at = NULL

\* A claim was refused at its signature against a row that is still unspent
\* and blank, while the other row has been spent.
C13_Witness ==
    \E c \in Claims, a \in DOMAIN balances :
        /\ claims[c].pc = "done" /\ claims[c].sawRow = "fresh"
        /\ claims[c].error.name = "SignatureError"
        /\ rowOf(claims[c].l1Address).spent = 0
        /\ rowOf(claims[c].l1Address).unicity_id = NULL
        /\ balances[a].spent = 1

\* C14: every row with spent = 1 has a non-empty unicity_id, a minted_at and
\* a mint_tx_id that is "pending" or an id of the upstream.
C14_SpentRowsFilled ==
    \A a \in DOMAIN balances :
        balances[a].spent = 1
           => /\ balances[a].unicity_id \notin {NULL, ""}
              /\ balances[a].minted_at # NULL
              /\ balances[a].mint_tx_id \in {"pending", "r1", "x1", "unknown"}

\* A row was spent by a claim whose upstream call has returned, with the
\* destination of that claim.
C14_Witness ==
    \E c \in Claims :
        /\ claims[c].pc = "done" /\ claims[c].atomic = "success"
        /\ rowOf(claims[c].l1Address).spent = 1
        /\ rowOf(claims[c].l1Address).unicity_id = claims[c].unicityId
        /\ rowOf(claims[c].l1Address).minted_at # NULL

\* The log row of claim c, for a claim that was logged.
logRowOf(c) == mint_requests[claims[c].requestId]

\* Every log row is pending and never updated, or success or failed and
\* updated once; the row of a claim that has returned is not pending.
LogRowsSettled ==
    /\ \A i \in DOMAIN mint_requests :
          /\ mint_requests[i].status \in {"pending", "success", "failed"}
          /\ mint_requests[i].updates <= 1
          /\ mint_requests[i].status = "pending" <=> mint_requests[i].updates = 0
    /\ \A c \in Claims :
          (claims[c].pc = "done" /\ claims[c].requestId # 0)
             => logRowOf(c).status # "pending"

LogAppendOnly ==
    /\ Len(mint_requests') >= Len(mint_requests)
    /\ \A i \in DOMAIN mint_requests :
          /\ mint_requests'[i].l1_address = mint_requests[i].l1_address
          /\ mint_requests'[i].unicity_id = mint_requests[i].unicity_id
          /\ mint_requests'[i].amount = mint_requests[i].amount

C18_ExistingFileUntouched ==
    [][ snap.existedAtStart
           => /\ disk' = disk
              /\ snap'.pc = "exit" => snap'.exitCode # 0 ]_vars

\* A run scanned the chain, came to createDatabase with the file in place
\* and exited with code 1; the file is the database it was.
C18_Witness ==
    /\ snap.pc = "exit" /\ snap.existedAtStart
    /\ snap.path # "none" /\ DOMAIN snap.scan.balances # {}
    /\ snap.exitCode = 1
    /\ disk = OldDatabase

\* What each alpha1 address holds in outputs of blocks up to block that no
\* transaction of a block up to block has spent.
unspentAsOf(chain, block) ==
    aggregateUnspents({ o \in OutputsOf(chain) :
                          /\ o.height <= block
                          /\ <<o.txid, o.n>> \notin SpentUpTo(chain, block) },
                      block, EmptyMap)

\* C19: when the block-by-block replay is through, its balance of every
\* address is the sum of the outputs to the address that are unspent as of
\* block_height.
C19_ReplayIsUnspentSum ==
    (snap.path = "fallback" /\ snap.pc = "create")
       => \A a \in {addressOf(1), addressOf(2)} :
             mapGet(snap.scan.balances, a)
                = mapGet(unspentAsOf(snap.chain, snap.block), a)

\* C20: for the chain and the block height of a run, the aggregate of the
\* UTXO-set scan and the aggregate of the block-by-block replay are the
\* same map.
C20_PathsAgree ==
    snap.pc = "create"
       => /\ snap.path = "primary"
             => snap.scan.balances
                  = scanBlocks(snap.chain, 0, snap.block, NoScan).balances
          /\ snap.path = "fallback"
             => snap.scan.balances
                  = aggregateUnspents(scantxoutset(snap.chain), snap.block,
                                      EmptyMap)

\* The satoshis of a set of outputs, counted output by output.
RECURSIVE satoshiSum(_)
satoshiSum(outputs) ==
    IF outputs = {} THEN 0
    ELSE LET o == CHOOSE x \in outputs : TRUE
         IN  o.amount.coin * 100000000 + o.amount.sat
                + satoshiSum(outputs \ {o})

\* The outputs to an address that scantxoutset returned to the run and whose
\* height is at most the block height of the run.
scannedFor(address) ==
    { o \in scantxoutset(snap.chain) :
        o.address = address /\ o.height <= snap.block }

\* The run took the primary path and wrote the database.
PrimaryDone == snap.pc = "exit" /\ snap.exitCode = 0 /\ snap.path = "primary"

\* C21: after a run of the primary path, every row is for an address that
\* starts with alpha1 and its initial_amount is the sum of the satoshis of
\* the scanned outputs to the address with height <= block_height; an
\* address of the family with such an output has a row, and nothing else
\* (an output above block_height, an output to another family) has one.
C21_RowIsExactSum ==
    PrimaryDone
       => /\ \A a \in DOMAIN disk.balances :
                /\ startsWith(a, hrp \o "1")
                /\ scannedFor(a) # {}
                /\ disk.balances[a].l1_address = a
                /\ disk.balances[a].initial_amount = satoshiSum(scannedFor(a))
          /\ \A o \in scantxoutset(snap.chain) :
                (/\ o.address # NULL
                 /\ startsWith(o.address, hrp \o "1")
                 /\ o.height <= snap.block) => o.address \in DOMAIN disk.balances

\* A run of the primary path summed two outputs to one address into a row of
\* 2 satoshis, while the scan also held an output above block_height and an
\* output to another address family.
C21_Witness ==
    /\ PrimaryDone
    /\ Cardinality(scannedFor(addressOf(2))) = 2
    /\ addressOf(2) \in DOMAIN disk.balances
    /\ disk.balances[addressOf(2)].initial_amount = 2
    /\ \E o \in scantxoutset(snap.chain) : o.height > snap.block
    /\ \E o \in scantxoutset(snap.chain) :
          o.address = "bc1qother" /\ o.height <= snap.block

\* C22: after a run of the builder, no row of the database it wrote has
\* initial_amount = 0.
C22_NoZeroRows ==
    (snap.pc = "exit" /\ snap.exitCode = 0)
       => \A a \in DOMAIN disk.balances : disk.balances[a].initial_amount > 0

\* The file at the output path as it was when the run started.
diskAtStart == IF snap.existedAtStart THEN OldDatabase ELSE NoFile

\* The run is over with exit code 1 and the output path is as it was.
Aborted == snap.pc = "exit" /\ snap.exitCode = 1 /\ disk = diskAtStart

RECURSIVE initialAmountSum(_)
initialAmountSum(bal) ==
    IF DOMAIN bal = {} THEN 0
    ELSE LET a == CHOOSE x \in DOMAIN bal : TRUE
         IN  bal[a].initial_amount
                + initialAmountSum([x \in DOMAIN bal \ {a} |-> bal[x]])

metaAgreesWith(bal) ==
    /\ disk.meta.address_count = Cardinality(DOMAIN bal)
    /\ disk.meta.total_amount = initialAmountSum(bal)

\* When a run has written the database, and in every state of the server
\* started on it, the metadata row's address_count is the number of balance
\* rows and its total_amount the sum of their initial_amount.
MetaCountsRows ==
    /\ (snap.pc = "exit" /\ snap.exitCode = 0) => metaAgreesWith(disk.balances)
    /\ Serving => metaAgreesWith(balances)

\* C23: the above in every state, and no step of the server changes the
\* metadata row.
C23_MetaRowTrue ==
    [][ /\ MetaCountsRows'
        /\ Serving => disk'.meta = disk.meta ]_vars

\* The server runs on a database of three rows and 100000005 satoshis, and has
\* consumed one of the rows.
C23_Witness ==
    /\ Serving
    /\ disk.meta.address_count = 3 /\ disk.meta.total_amount = 100000005
    /\ \E a \in DOMAIN balances : balances[a].spent = 1

\* The (address, initial_amount) pairs of a balances table.
amountPairs(bal) == { <<bal[a].l1_address, bal[a].initial_amount>> : a \in DOMAIN bal }

\* C25: no step of the server creates or deletes a balance row or changes a
\* row's address or initial_amount, so the (address, initial_amount) pairs
\* are those the snapshot builder wrote.
C25_RowsFixed ==
    [][ Serving => /\ DOMAIN balances' = DOMAIN balances
                   /\ amountPairs(balances') = amountPairs(balances)
                   /\ amountPairs(balances') = amountPairs(disk.balances) ]_vars

\* The server consumed a row that the builder wrote with 2 satoshis, after
\* refusing a claim for an address without a row.
C25_Witness ==
    /\ Serving
    /\ \E a \in DOMAIN balances :
          /\ balances[a].spent = 1 /\ balances[a].initial_amount = 2
          /\ <<a, 2>> \in amountPairs(disk.balances)
    /\ \E c \in Claims : claims[c].error.name = "NotFoundError"

(***************************************************************************)
(* parseSignature                                                          *)
(***************************************************************************)
parsedV == parseHexByte(sigTest.signature.v)
parsedR == sigTest.signature.rs.r
parsedS == sigTest.signature.rs.s
InRange(x) == x >= 1 /\ x <= curveOrder - 1
LowS(x) == x >= 1 /\ 2 * x <= curveOrder
CompressedHeader == parsedV \in (31..34) \cup (39..42)

C27_ScalarRanges ==
    (sigTest.stage = "parsed" /\ CompressedHeader)
       => LET p == sigTest.parsed
          IN  /\ p.ok <=> (InRange(parsedR) /\ LowS(parsedS))
              /\ ~InRange(parsedR)
                    => p.error = ValidationError("Signature r value out of range")
              /\ (InRange(parsedR) /\ ~InRange(parsedS))
                    => p.error = ValidationError("Signature s value out of range")
              /\ (InRange(parsedR) /\ InRange(parsedS) /\ ~LowS(parsedS))
                    => p.error = ValidationError(
                                    "Signature s value not normalized (BIP-62)")

\* s = floor(n / 2) + 1 with r = n - 1 under the header 31 was rejected as
\* not normalized.
C27_Witness ==
    /\ sigTest.stage = "parsed"
    /\ parsedV = 31 /\ parsedR = curveOrder - 1 /\ parsedS = halfOrder + 1
    /\ ~sigTest.parsed.ok
    /\ sigTest.parsed.error = ValidationError("Signature s value not normalized (BIP-62)")

(***************************************************************************)
(* The address service                                                     *)
(***************************************************************************)
Validated(forms) == addrTest.stage = "text" /\ forms \subseteq addrTest.done

\* C28: a text is valid exactly when its lower-case form is; when the
\* lower-case form is valid, the upper-case form is valid too and its
\* normalized value is the lower-case form; a normalized value that is
\* returned is in lower case.
C28_CaseInsensitive ==
    /\ Validated({"asIs", "ofLower"})
          => addrTest.asIs.valid = addrTest.ofLower.valid
    /\ (Validated({"ofLower", "ofUpper"}) /\ addrTest.ofLower.valid)
          => /\ addrTest.ofUpper.valid
             /\ addrTest.ofUpper.normalized = toLowerCase(addrTest.text)
    /\ \A r \in {addrTest.asIs, addrTest.ofLower, addrTest.ofUpper} :
          r.valid => r.normalized = toLowerCase(r.normalized)

\* A text of mixed case whose lower-case form is a valid address was found
\* valid as it is and in upper case, with the lower-case form as normalized.
C28_Witness ==
    /\ Validated({"asIs", "ofLower", "ofUpper"})
    /\ addrTest.text # toLowerCase(addrTest.text)
    /\ addrTest.text # toUpperCase(addrTest.text)
    /\ addrTest.asIs.valid /\ addrTest.ofUpper.valid
    /\ addrTest.ofUpper.normalized = toLowerCase(addrTest.text)

\* C29: the address encodeAddress gives for a 20-byte hash is valid, and
\* decodeAddress of it returns witness version 0 and the hash.
C29_EncodeDecode ==
    addrTest.stage = "encoded"
       => /\ "asIs" \in addrTest.done => addrTest.asIs.valid
          /\ "decoded" \in addrTest.done
                => /\ addrTest.decoded.ok
                   /\ addrTest.decoded.witnessVersion = 0
                   /\ addrTest.decoded.pubKeyHash = addrTest.hash

\* The hash of key 2 was encoded, and the address validated and decoded.
C29_Witness ==
    /\ addrTest.stage = "encoded"
    /\ addrTest.hash = hash160(getPublic(2)) /\ addrTest.hash.len = 20
    /\ {"asIs", "decoded"} \subseteq addrTest.done
    /\ addrTest.asIs.valid
    /\ addrTest.decoded.pubKeyHash = addrTest.hash

(***************************************************************************)
(* getBalance                                                              *)
(***************************************************************************)
\* The rows of the address of the last call, whatever the case of its letters.
rowsAsked ==
    { balances[k] : k \in { a \in DOMAIN balances :
                              toLowerCase(a) = toLowerCase(storeCall.l1Address) } }

\* C30: getBalance reports inSnapshot = false, spent = false and amount 0
\* for an address without a row; spent = true and current amount 0 for a
\* consumed row; spent = false and current amount = initial_amount for an
\* unconsumed row; and the row's initial_amount as initial amount.
C30_BalanceReport ==
    storeCall.op = "getBalance"
       => LET info == storeCall.result
          IN  /\ rowsAsked = {}
                    => /\ ~info.inSnapshot /\ ~info.spent
                       /\ info.amountInSmallUnits = 0 /\ info.amount = [coin |-> 0, sat |-> 0]
                       /\ info.initialAmountInSmallUnits = 0
              /\ \A row \in rowsAsked :
                    /\ info.inSnapshot
                    /\ info.initialAmountInSmallUnits = row.initial_amount
                    /\ 100000000 * info.initialAmount.coin + info.initialAmount.sat
                          = row.initial_amount
                    /\ 100000000 * info.amount.coin + info.amount.sat
                          = info.amountInSmallUnits
                    /\ row.spent = 1
                          => info.spent /\ info.amountInSmallUnits = 0
                    /\ row.spent = 0
                          => /\ ~info.spent
                             /\ info.amountInSmallUnits = row.initial_amount

\* getBalance was asked, in upper case, for an address whose row had been
\* consumed, and reported it spent with its initial amount of 2 satoshis.
C30_Witness ==
    /\ storeCall.op = "getBalance"
    /\ storeCall.l1Address = "ALPHA1QQPZRY9X8"
    /\ storeCall.result.spent /\ storeCall.result.inSnapshot
    /\ storeCall.result.amountInSmallUnits = 0
    /\ storeCall.result.initialAmountInSmallUnits = 2

(***************************************************************************)
(* Shutdown                                                                *)
(***************************************************************************)
\* Where the spec's coordinator is when a handler has returned: FINAL (the
\* upstream accepted), STUCK_PENDING (reserved, the relay failed), or a
\* failure before the reservation.
Resolved(claim) ==
    /\ claim.pc = "done"
    /\ \/ claim.statusCode = 200
       \/ claim.atomic = "success" /\ claim.error.name = "FaucetError"
       \/ claim.atomic # "success"

\* C31: after the signal no new claim is taken; when the store is closed
\* every claim that was taken has resolved and the listener is closed
\* already; and once the store is closed no row of a table changes.
C31_StoreClosedLast ==
    [][ /\ server.phase # "listening"
           => \A c \in Claims : claims[c].pc = "idle" => claims'[c].pc = "idle"
        /\ ~server'.storeOpen
           => /\ server'.phase = "exited"
              /\ server.phase \in {"closing", "exited"}
              /\ \A c \in Claims : claims'[c].pc # "idle" => Resolved(claims'[c])
        /\ ~server.storeOpen
           => balances' = balances /\ mint_requests' = mint_requests ]_vars

\* The signal came while one claim was suspended on the upstream; the store
\* was closed after that claim had been answered with the upstream's failure.
C31_Witness ==
    /\ server.phase = "exited" /\ ~server.storeOpen
    /\ \E c \in Claims :
          /\ claims[c].atomic = "success" /\ claims[c].error.name = "FaucetError"
    /\ \E c \in Claims : claims[c].pc = "idle"

(***************************************************************************)
(* The silent upstream                                                     *)
(***************************************************************************)
\* The claim was answered with the upstream's failure and its log row is
\* no longer pending.
EndedUpstreamFailure(c) ==
    /\ claims[c].pc = "done"
    /\ claims[c].error.name = "FaucetError"
    /\ claims[c].statusCode = 502
    /\ mint_requests[claims[c].requestId].status = "failed"

Received(c) == claims[c].pc = "idle" /\ claims'[c].pc # "idle"

\* The request passed the body schema, the address validation and
\* processMintRequest's own validation of destination and amount.
PassedValidation(claim) ==
    /\ claim.schemaOk /\ claim.addressOk
    /\ validateRequest(claim.unicityId, claim.amount) = NoError

\* The answer the order lookup, already-consumed, amount, signature gives,
\* read from the row as it is when the claim is received.
AnsweredByRow(claim, bal) ==
    LET found == findByAddress(bal, claim.l1Address)
        state == rowState(bal, claim.l1Address)
    IN  /\ state = "absent"
           => /\ claim.pc = "done" /\ claim.statusCode = 404
              /\ claim.error.name = "NotFoundError"
        /\ state = "spent"
           => /\ claim.pc = "done" /\ claim.statusCode = 409
              /\ claim.error.name = "AlreadyMintedError"
        /\ (state = "fresh" /\ claim.amount # found.record.initial_amount)
           => /\ claim.pc = "done" /\ claim.statusCode = 400
              /\ claim.error = ValidationError("Amount mismatch: must mint full balance")

\* C33 as stated: whatever the amount and the signature of a claim are, an
\* absent address is answered NotFound, a consumed one AlreadyConsumed, and
\* a wrong amount against an unconsumed row AmountMismatch.
C33_RowDecidesAnyClaim ==
    [][ \A c \in Claims : Received(c) => AnsweredByRow(claims'[c], balances) ]_vars

\* C33 as amended: the same for every claim that passed the validation of
\* its body, address, destination and amount, whatever its signature is.
C33_RowDecidesValidClaim ==
    [][ \A c \in Claims :
          (Received(c) /\ PassedValidation(claims'[c]))
             => AnsweredByRow(claims'[c], balances) ]_vars

\* A claim with a wrong amount and a signature that is not the owner's was
\* answered 409 against a consumed row.
C33_Witness ==
    \E c \in Claims :
       /\ claims[c].sawRow = "spent" /\ ~claims[c].signedByOwner
       /\ claims[c].amount # findByAddress(balances, claims[c].l1Address).record.initial_amount
       /\ claims[c].statusCode = 409

(***************************************************************************)
(* No lock across the relay                                                *)
(***************************************************************************)
\* Claim d runs its reservation in this step.
Reserves(d) == claims[d].pc = "reserve" /\ claims'[d].pc # "reserve"

\* C34: no claim waits on the upstream with its reservation transaction
\* still open, and while one claim waits another claim reserves the fresh
\* row of another address.
C34_NoLockAcrossRelay ==
    [][ /\ \A c \in Claims : claims'[c].pc = "relay" => claims'[c].txn = "committed"
        /\ \A c, d \in Claims :
              ( /\ claims[c].pc = "relay" /\ Reserves(d)
                /\ toLowerCase(claims[d].l1Address) # toLowerCase(claims[c].l1Address)
                /\ rowState(balances, claims[d].l1Address) = "fresh" )
                 => claims'[d].atomic = "success" /\ claims'[d].pc = "relay" ]_vars

\* Two claims for two addresses wait on the upstream at once.
C34_Witness ==
    \E c, d \in Claims :
       /\ c # d
       /\ claims[c].pc = "relay" /\ claims[d].pc = "relay"
       /\ claims[c].l1Address # claims[d].l1Address

(***************************************************************************)
(* The batch insert                                                        *)
(***************************************************************************)
\* The batch names an address that is in the table, or one address twice.
Collides(items, bal) ==
    \/ \E i \in DOMAIN items : items[i].address \in DOMAIN bal
    \/ \E i, j \in DOMAIN items : i # j /\ items[i].address = items[j].address

\* C35: a batch with a primary-key collision fails with a store error and
\* leaves the table as it was; a batch without one adds exactly its rows.
C35_BatchAllOrNothing ==
    [][ \A items \in Batches :
          CallInsertBalancesBatch(items)
             => IF Collides(items, balances)
                THEN ~storeCall'.ok /\ balances' = balances
                ELSE /\ storeCall'.ok
                     /\ DOMAIN balances' =
                           DOMAIN balances \cup { items[i].address : i \in DOMAIN items }
                     /\ \A a \in DOMAIN balances : balances'[a] = balances[a]
                     /\ \A i \in DOMAIN items :
                           balances'[items[i].address] =
                              insertBalance(items[i].address, items[i].amount) ]_vars

\* A batch failed against a table that holds rows, one of them consumed.
C35_Witness ==
    /\ storeCall.op = "insertBalancesBatch" /\ ~storeCall.ok
    /\ \E a \in DOMAIN balances : balances[a].spent = 1
    /\ Cardinality(DOMAIN balances) = 2

(***************************************************************************)
(* The key of a row                                                        *)
(***************************************************************************)
\* The rows whose address is l1Address up to the case of its letters.
SameKey(bal, l1Address) ==
    { k \in DOMAIN bal : toUpperCase(k) = toUpperCase(l1Address) }

\* C36: a lookup and a reservation reach the row whose address differs from
\* the one given at most in letter case: the lookup reports that row, the
\* reservation succeeds exactly when that row is unconsumed and leaves it
\* consumed, so no second reservation of it succeeds under any spelling.
C36_KeyIgnoresCase ==
    [][ /\ \A a \in RawAddresses :
             CallGetBalance(a)
                => LET rows == SameKey(balances, a)
                   IN  /\ storeCall'.result.inSnapshot <=> rows # {}
                       /\ \A k \in rows : storeCall'.result.l1_addr = k
        /\ \A a \in RawAddresses, u \in UnicityIds \ {""}, t \in TxIds :
             CallAtomicMarkAsSpent(a, u, t)
                => LET rows == SameKey(balances, a)
                   IN  /\ storeCall'.ok <=> \E k \in rows : balances[k].spent = 0
                       /\ \A k \in rows : balances'[k].spent = 1
                       /\ \A k \in DOMAIN balances \ rows : balances'[k] = balances[k] ]_vars

\* The row stored in lower case was reserved under its upper-case spelling.
C36_Witness ==
    /\ storeCall.op = "atomicMarkAsSpent" /\ storeCall.ok
    /\ storeCall.l1Address = toUpperCase(addressOf(1))
    /\ storeCall.l1Address \notin DOMAIN balances
    /\ balances[addressOf(1)].spent = 1

(***************************************************************************)
(* The fixture's hasher                                                    *)
(***************************************************************************)
\* C37: for every message the fixture and the verifier hash the same byte
\* string.
C37_FixtureHashesAlike ==
    hashTest.stage = "hashed" => hashTest.fixture = hashTest.verifier

(***************************************************************************)
(* A consumed row keeps its destination                                    *)
(***************************************************************************)
\* C38: a row that is consumed keeps its destination and the time of its
\* consumption in every later step, whether the step is a claim's or a
\* direct call of the store.
C38_DestinationFixed ==
    [][ \A a \in DOMAIN balances :
           balances[a].spent = 1
              => /\ balances'[a].unicity_id = balances[a].unicity_id
                 /\ balances'[a].minted_at = balances[a].minted_at ]_vars

\* A claim reserved a row and its relay has returned; later, after time had
\* passed, markAsSpent was called directly on that row and changed nothing.
C38_Witness ==
    \E c \in Claims :
       /\ claims[c].pc = "done" /\ claims[c].statusCode = 200
       /\ storeCall.op = "markAsSpent" /\ ~storeCall.ok
       /\ toLowerCase(storeCall.l1Address) = claims[c].l1Address
       /\ rowOf(claims[c].l1Address).unicity_id = claims[c].unicityId
       /\ rowOf(claims[c].l1Address).minted_at = "t0"
       /\ clock = 1

(***************************************************************************)
(* The server started before the snapshot                                  *)
(***************************************************************************)
\* What C39 says of the file, of the builder and of the table.
FreshStoreStaysEmpty ==
    /\ (server.phase = "starting" /\ server'.phase = "listening")
          => disk'.exists /\ DOMAIN disk'.balances = {} /\ disk'.meta = NoMeta
    /\ server.phase = "listening"
          => /\ disk' = disk
             /\ DOMAIN balances' = {}
             /\ snap'.pc = "exit" => snap'.exitCode = 1

\* The claim was answered 404, address not found.
NotFound(claim) ==
    claim.pc = "done" /\ claim.statusCode = 404 /\ claim.error.name = "NotFoundError"

\* C39 as stated: the server creates the empty database file, the later
\* snapshot run exits with code 1 and writes nothing, the balances table
\* stays empty, and every claim is answered NotFound.
C39_EveryClaimNotFound ==
    [][ /\ FreshStoreStaysEmpty
        /\ \A c \in Claims : Received(c) => NotFound(claims'[c]) ]_vars

\* C39 as amended: the same, where the claims answered NotFound are those
\* that passed the validation of the request.
C39_EveryValidClaimNotFound ==
    [][ /\ FreshStoreStaysEmpty
        /\ \A c \in Claims :
              (Received(c) /\ PassedValidation(claims'[c])) => NotFound(claims'[c]) ]_vars

\* The builder scanned the chain without a failure, was refused at the file
\* the server had made, and a well-formed claim of a funded address was
\* answered NotFound after that.
C39_Witness ==
    /\ snap.pc = "exit" /\ snap.exitCode = 1
    /\ snap.rpcErrors = {} /\ snap.block <= tipOf(snap.chain)
    /\ snap.existedAtStart
    /\ disk.exists /\ disk.meta = NoMeta
    /\ \E c \in Claims :
          /\ NotFound(claims[c]) /\ claims[c].l1Address = addressOf(1)
          /\ claims[c].signedByOwner
====
